---------------------------- MODULE Spec2Model ----------------------------
(***************************************************************************)
(* Model of the spherical isotropic distribution-function core of         *)
(* galaxymodel_spherical.cpp: the SphericalIsotropicModel constructor,     *)
(* its queries, the queries of SphericalIsotropicModelLocal and the free   *)
(* functions computeDensity / computeProjectedDensity.                     *)
(*                                                                         *)
(* A C++ double is modelled as a fixed-point number: the integer n stands  *)
(* for the real n / SCALE.  Three integers outside the finite range stand  *)
(* for +infinity, -infinity and NaN, and every arithmetic operator         *)
(* propagates them the way IEEE-754 does (overflow saturates to infinity). *)
(***************************************************************************)
EXTENDS Integers, Sequences, FiniteSets, TLC

\* ------------------------------------------------------------------------
\* Fixed-point doubles
\* ------------------------------------------------------------------------

\* one unit of the real line
SCALE == 10 * 100

\* the two infinities and NaN; finite values lie strictly between NINF and PINF
PINF == 1000000 * SCALE
NINF == 0 - PINF
NAN == 2 * PINF

\* ln(2) in fixed point
LN2 == 693 + 0

Abs(n) == IF n < 0 THEN 0 - n ELSE n

Sgn(n) == IF n < 0 THEN 0 - 1 ELSE IF n > 0 THEN 1 ELSE 0

\* integer quotient rounded toward minus infinity (d > 0)
FloorDiv(n, d) == IF n >= 0 THEN n \div d ELSE 0 - ((Abs(n) + d - 1) \div d)

isFinite(x) == x # NAN /\ x > NINF /\ x < PINF

\* a result beyond the largest finite value overflows to an infinity
Sat(n) == IF n >= PINF THEN PINF ELSE IF n <= NINF THEN NINF ELSE n

\* <<q, r>> with a b = q c + r and 0 <= r < c, for a, b >= 0 and c > 0, computed
\* without leaving 32 bits; q stops at PINF
RECURSIVE MulDivQR(_, _, _)
MulDivQR(a, b, c) ==
    IF b = 0 THEN <<0, 0>>
    ELSE LET half == MulDivQR(a, b \div 2, c)
             add  == IF b % 2 = 1 THEN a ELSE 0
             r2   == (2 * half[2]) % c
             r3   == r2 + (add % c)
             q    == 2 * half[1] + ((2 * half[2]) \div c) + (add \div c) + (r3 \div c)
         IN  IF half[1] >= PINF \div 2 THEN <<PINF, 0>>
             ELSE <<IF q > PINF THEN PINF ELSE q, r3 % c>>

\* a b / c rounded toward zero, overflowing to infinity
MulDiv(a, b, c) == MulDivQR(a, b, c)[1]

FNeg(a) == IF a = NAN THEN NAN ELSE 0 - a

FAdd(a, b) ==
    IF a = NAN \/ b = NAN THEN NAN
    ELSE IF a = PINF THEN (IF b = NINF THEN NAN ELSE PINF)
    ELSE IF a = NINF THEN (IF b = PINF THEN NAN ELSE NINF)
    ELSE IF b = PINF \/ b = NINF THEN b
    ELSE Sat(a + b)

FSub(a, b) == FAdd(a, FNeg(b))

FMul(a, b) ==
    IF a = NAN \/ b = NAN THEN NAN
    ELSE IF ~isFinite(a) \/ ~isFinite(b)
         THEN (IF a = 0 \/ b = 0 THEN NAN ELSE Sgn(a) * Sgn(b) * PINF)
    ELSE LET p  == Abs(a)
             q  == Abs(b)
             ph == p \div SCALE
             pl == p % SCALE
         IN  \* |a b| / SCALE rounded toward zero, computed without leaving 32 bits
             IF ph > 0 /\ q > PINF \div ph THEN Sgn(a) * Sgn(b) * PINF
             ELSE Sat(Sgn(a) * Sgn(b) *
                      (ph * q + pl * (q \div SCALE) + (pl * (q % SCALE)) \div SCALE))

FDiv(a, b) ==
    IF a = NAN \/ b = NAN THEN NAN
    ELSE IF ~isFinite(a) THEN (IF ~isFinite(b) THEN NAN
                               ELSE IF b < 0 THEN 0 - a ELSE a)
    ELSE IF ~isFinite(b) THEN 0
    ELSE IF b = 0 THEN (IF a = 0 THEN NAN ELSE Sgn(a) * PINF)
    ELSE Sgn(a) * Sgn(b) * MulDiv(Abs(a), SCALE, Abs(b))

\* IEEE comparisons: every comparison with NaN is false
FLt(a, b) == a # NAN /\ b # NAN /\ a < b
FLe(a, b) == a # NAN /\ b # NAN /\ a <= b
FGt(a, b) == FLt(b, a)
FGe(a, b) == FLe(b, a)

FMax(a, b) == IF a = NAN THEN b ELSE IF b = NAN THEN a ELSE IF a < b THEN b ELSE a
FMin(a, b) == IF a = NAN THEN b ELSE IF b = NAN THEN a ELSE IF a < b THEN a ELSE b

pow_2(a) == FMul(a, a)

RECURSIVE Pow2(_)
Pow2(k) == IF k <= 0 THEN 1 ELSE 2 * Pow2(k - 1)

\* the binary exponent k of a positive finite x: x / 2^k lies in [1, 2)
RECURSIVE BinExp(_)
BinExp(x) ==
    IF x >= 2 * SCALE THEN 1 + BinExp(x \div 2)
    ELSE IF x < SCALE THEN BinExp(2 * x) - 1
    ELSE 0

\* ln of a mantissa m in [1, 2): 2 (t + t^3/3 + t^5/5), t = (m - 1) / (m + 1)
LogMant(m) ==
    LET t  == ((m - SCALE) * SCALE) \div (m + SCALE)
        t2 == (t * t) \div SCALE
        t3 == (t2 * t) \div SCALE
        t5 == (t3 * t2) \div SCALE
    IN  2 * (t + (t3 \div 3) + (t5 \div 5))

\* log(x) of <cmath>
FLog(x) ==
    IF x = NAN \/ x < 0 THEN NAN
    ELSE IF x = 0 THEN NINF
    ELSE IF x = PINF THEN PINF
    ELSE LET Parts(k) ==
                 k * LN2 + LogMant(IF k >= 0 THEN x \div Pow2(k) ELSE x * Pow2(0 - k))
         IN  Parts(BinExp(x))

\* exp(x) of <cmath>
FExp(x) ==
    IF x = NAN THEN NAN
    ELSE IF x = NINF THEN 0
    ELSE IF x = PINF THEN PINF
    ELSE LET \* e^r 2^k, e^r by its series to the fourth order
             Series(k, r) ==
                 LET r2 == (r * r) \div SCALE
                     r3 == (r2 * r) \div SCALE
                     r4 == (r3 * r) \div SCALE
                     Scaled(e) ==
                         IF k >= 20 THEN PINF
                         ELSE IF k >= 0 THEN Sat(e * Pow2(k))
                         ELSE IF k < 0 - 11 THEN 0
                         ELSE e \div Pow2(0 - k)
                 IN  Scaled(SCALE + r + (r2 \div 2) + (r3 \div 6) + (r4 \div 24))
             Reduced(k) == Series(k, x - k * LN2)
         IN  Reduced(FloorDiv(x, LN2))

RECURSIVE ISqrtFrom(_, _)
ISqrtFrom(n, r) == IF (r + 1) * (r + 1) > n THEN r ELSE ISqrtFrom(n, r + 1)

\* floor of the integer square root, by bisection on the binary exponent
RECURSIVE ISqrt(_)
ISqrt(n) == IF n < 4 THEN ISqrtFrom(n, 0) ELSE ISqrtFrom(n, 2 * ISqrt(n \div 4))

\* the square root of a finite x >= 0, computed without leaving 32 bits
RECURSIVE SqrtFinite(_)
SqrtFinite(x) == IF x < 2000 * SCALE THEN ISqrt(x * SCALE) ELSE 2 * SqrtFinite(x \div 4)

\* sqrt(x) of <cmath>
FSqrt(x) ==
    IF x = NAN \/ x < 0 THEN NAN
    ELSE IF x = PINF THEN PINF
    ELSE SqrtFinite(x)

\* y * y * x for a finite y, the square kept exact before the product is rounded
FMulSq(y, x) ==
    IF x = NAN THEN NAN
    ELSE IF ~isFinite(x) THEN (IF y = 0 THEN NAN ELSE x)
    ELSE Sgn(x) * MulDiv(Abs(x), y * y, SCALE * SCALE)

\* x / (1 - y * y) for a finite y in [0, 1), the square kept exact
FDivOneMinusSq(x, y) ==
    IF x = NAN THEN NAN
    ELSE IF ~isFinite(x) THEN x
    ELSE Sgn(x) * MulDiv(Abs(x), SCALE * SCALE, SCALE * SCALE - y * y)

\* pi and sqrt(2) of <cmath>
M_PI == 3142 + 0
M_SQRT2 == 1414 + 0

\* the smallest element of a non-empty set of integers
Minimum(S) == CHOOSE x \in S : \A y \in S : x <= y

\* pow(x, p) of <cmath> for a base x >= 0
FPow(x, p) == IF p = 0 THEN SCALE ELSE FExp(FMul(p, FLog(x)))

\* ------------------------------------------------------------------------
\* Gauss-Legendre tables on [0,1] (math::GLPOINTS, math::GLWEIGHTS)
\* ------------------------------------------------------------------------

GLORDER == 8
GLORDER1 == 6
GLORDER2 == 10
\* the length in log(h) that separates short from long segments
GLDELTA == 700
\* lower limit on a DF value to be considered non-zero: the smallest positive
\* fixed-point number stands for the values at or below 1e-100
MIN_VALUE_ROUNDOFF == 1

GLPOINTS(order) ==
    IF order = GLORDER1 THEN <<34, 169, 381, 619, 831, 966>>
    ELSE IF order = GLORDER THEN <<20, 102, 237, 408, 592, 763, 898, 980>>
    ELSE <<13, 67, 160, 283, 426, 574, 717, 840, 933, 987>>

GLWEIGHTS(order) ==
    IF order = GLORDER1 THEN <<86, 180, 234, 234, 180, 86>>
    ELSE IF order = GLORDER THEN <<51, 111, 157, 181, 181, 157, 111, 51>>
    ELSE <<33, 75, 110, 135, 147, 147, 135, 110, 75, 33>>

\* ------------------------------------------------------------------------
\* The two collaborators handed to the constructor
\* ------------------------------------------------------------------------

\* The distribution function f(h), a math::IFunction: a broken power law
\*   f(h) = amp (h/hb)^sIn  for h < hb,   amp (h/hb)^sOut  for h >= hb,
\* set to zero above hcut, and replaced by the value bad on [badLo, badHi].
\* hasDeriv tells whether numDerivs() >= 1.
DFregular(df, h) ==
    IF FGt(h, df.hcut) THEN 0
    ELSE FMul(df.amp, FPow(FDiv(h, df.hb), IF FLt(h, df.hb) THEN df.sIn ELSE df.sOut))

DFvalue(df, h) ==
    IF FGe(h, df.badLo) /\ FLe(h, df.badHi) THEN df.bad ELSE DFregular(df, h)

\* df.evalDeriv(h, NULL, &der): the analytic derivative df/dh
DFderiv(df, h) ==
    IF FGe(h, df.badLo) /\ FLe(h, df.badHi) THEN (IF isFinite(df.bad) THEN 0 ELSE NAN)
    ELSE IF FGt(h, df.hcut) THEN 0
    ELSE FDiv(FMul(IF FLt(h, df.hb) THEN df.sIn ELSE df.sOut, DFregular(df, h)), h)

\* The phase volume, a potential::PhaseVolume: E(h) = -A / (c + h^q), so that
\* Phi(0) = -A/c (minus infinity for c = 0), g(h) = dh/dE = (c + h^q)^2 / (A q h^(q-1)).
\* A defect makes the object inconsistent.
PVenergy(pv, h) ==
    LET E(hq) ==
            IF pv.defect = "decr" THEN FNeg(FMul(pv.A, FAdd(SCALE, hq)))
            ELSE IF pv.defect = "posE" THEN FSub(pv.A, FDiv(pv.A, FAdd(pv.c, hq)))
            ELSE FNeg(FDiv(pv.A, FAdd(pv.c, hq)))
    IN  IF pv.defect = "nanE" THEN NAN ELSE E(FPow(h, pv.q))

PVg(pv, h) ==
    LET G(hq, s) == FMul(FMul(FDiv(s, FMul(pv.A, pv.q)), FDiv(s, hq)), h)
        Of(hq)   == G(hq, FAdd(pv.c, hq))
        Out(g)   == IF pv.defect = "negG" THEN FNeg(g) ELSE g
    IN  IF pv.defect = "nanG" THEN NAN ELSE Out(Of(FPow(h, pv.q)))

\* phasevol.E(0): Phi(r=0), may be -inf
PVPhi0(pv) == PVenergy(pv, 0)

\* phasevol(E): h(E), the inverse of E(h); zero at and below Phi(0),
\* infinite for E >= 0
PVvalue(pv, E) ==
    IF E = NAN \/ pv.defect = "nanE" THEN NAN
    ELSE IF E >= 0 THEN PINF
    ELSE IF E = NINF THEN 0
    ELSE LET Root(hq) == IF hq <= 0 THEN 0 ELSE FPow(hq, FDiv(SCALE, pv.q))
         IN  Root(FSub(FDiv(pv.A, FNeg(E)), pv.c))

\* ------------------------------------------------------------------------
\* SphericalIsotropicModel::SphericalIsotropicModel
\* ------------------------------------------------------------------------

\* a vector held by value: every element is computed once, when the vector is made
Vec(f) == f \o <<>>

\* sum of the first k elements of a sequence of doubles, added in order
RECURSIVE FSum(_, _)
FSum(seq, k) == IF k = 0 THEN 0 ELSE FAdd(FSum(seq, k - 1), seq[k])

\* sum of all elements of a vector of doubles, added in order
FSumAll(seq) == IF Len(seq) = 0 THEN 0 ELSE FSum(seq, Len(seq))

\* an element of a vector; an index outside 1..Len reads whatever the memory
\* beyond the vector holds (junk)
At(vec, i, junk) == IF i \in 1..Len(vec) THEN vec[i] ELSE junk

\* step 1: the grid in log(h) from the caller's grid in h
CtorGridLogH(gridh) == Vec([i \in 1..Len(gridh) |-> FLog(gridh[i])])

\* step 2: h, f, E, g at a grid node
CtorNode(pv, df, h) ==
    [h |-> h, f |-> DFvalue(df, h), E |-> PVenergy(pv, h), g |-> PVg(pv, h)]

\* step 2: h, f, E, g at the grid nodes
CtorNodes(pv, df, gridLogH) ==
    Vec([i \in 1..Len(gridLogH) |->
            CtorNode(pv, df, FExp(gridLogH[i]))])

\* the check applied to every value of the DF: throw unless f >= 0
BadF(f) == ~FGe(f, 0)

\* step 3a: the slopes of f(h) at the two ends of the grid, before snapping
CtorInnerFslope(df, nodes, gridLogH, junk) ==
    IF df.hasDeriv
    THEN FMul(FDiv(DFderiv(df, nodes[1].h), nodes[1].f), nodes[1].h)
    ELSE FDiv(FLog(FDiv(At([i \in 1..Len(nodes) |-> nodes[i].f], 2, junk), nodes[1].f)),
              FSub(At(gridLogH, 2, junk), gridLogH[1]))

CtorOuterFslope(df, nodes, gridLogH, junk) ==
    LET n == Len(nodes)
    IN  IF df.hasDeriv
        THEN FMul(FDiv(DFderiv(df, nodes[n].h), nodes[n].f), nodes[n].h)
        ELSE FDiv(FLog(FDiv(nodes[n].f, At([i \in 1..n |-> nodes[i].f], n - 1, junk))),
                  FSub(gridLogH[n], At(gridLogH, n - 1, junk)))

\* a boundary value of the DF at or below the threshold is snapped to zero
Snapped(f) == FLe(f, MIN_VALUE_ROUNDOFF)

\* the two rejections of step 3a
InnerSlopeRejected(f, slope) == ~Snapped(f) /\ ~FGt(slope, 0 - SCALE)

\* the rejection of the outer slope with the comparison off by one value
OuterSlopeRejectedAboveOnly(f, slope) == ~Snapped(f) /\ ~FLe(slope, 0 - SCALE)
OuterSlopeRejected(f, slope) == ~Snapped(f) /\ ~FLt(slope, 0 - SCALE)

\* step 3b: the checks of the energy range
EnergyRangeRejected(Phi0, innerE, outerE) ==
    ~(FLt(Phi0, innerE) /\ FLt(innerE, outerE) /\ FLt(outerE, 0))

OuterEslopeRejected(outerEslope) == ~FLt(outerEslope, 0)

\* the check of the combined inner slope against -2 instead of -1
InnerSlopeSumRejectedBelowTwo(innerEslope, innerFslope) ==
    ~FGt(FAdd(innerEslope, innerFslope), 0 - 2 * SCALE)
InnerSlopeSumRejected(innerEslope, innerFslope) ==
    ~FGt(FAdd(innerEslope, innerFslope), 0 - SCALE)

\* the order chosen by comparing the length of the segment with ln(2)
SegmentOrderAboveLn2(dlogh) == IF FGt(dlogh, LN2) THEN GLORDER2 ELSE GLORDER1
\* step 4a: the order of the quadrature rule on a segment of length dlogh
SegmentOrder(dlogh) == IF FLt(dlogh, GLDELTA) THEN GLORDER1 ELSE GLORDER2

\* step 4a: the contributions of a quadrature node at h to the four integrals,
\* from the values of f, g and E there
SegmentTerms(h, f, g, E, weight) ==
    LET integrand == FMul(FMul(f, h), weight)
    IN  [f  |-> f,
         F  |-> FDiv(integrand, g),
         FG |-> integrand,
         FH |-> FMul(FDiv(integrand, g), h),
         FE |-> FNeg(FMul(integrand, E))]

SegmentAt(pv, df, h, weight) ==
    SegmentTerms(h, DFvalue(df, h), PVg(pv, h), PVenergy(pv, h), weight)

\* step 4a: the contributions of the k-th Gauss-Legendre node of the segment
\* starting at loghPrev to the four integrals
SegmentNode(pv, df, loghPrev, dlogh, k) ==
    LET glorder == SegmentOrder(dlogh)
    IN  SegmentAt(pv, df, FExp(FAdd(loghPrev, FMul(dlogh, GLPOINTS(glorder)[k]))),
                  FMul(GLWEIGHTS(glorder)[k], dlogh))

\* step 4a: the sums over the quadrature nodes of a segment
SegmentSums(order, node) ==
    [bad |-> \E k \in 1..order : BadF(node[k].f),
     fs  |-> {node[k].f : k \in 1..order},
     F   |-> FSum(Vec([k \in 1..order |-> node[k].F]), order),
     FG  |-> FSum(Vec([k \in 1..order |-> node[k].FG]), order),
     FH  |-> FSum(Vec([k \in 1..order |-> node[k].FH]), order),
     FE  |-> FSum(Vec([k \in 1..order |-> node[k].FE]), order)]

\* step 4a: the four integrals over the segment between nodes i-1 and i (i >= 2)
Segment(pv, df, gridLogH, i) ==
    LET dlogh == FSub(gridLogH[i], gridLogH[i - 1])
        order == SegmentOrder(dlogh)
    IN  SegmentSums(order,
            Vec([k \in 1..order |-> SegmentNode(pv, df, gridLogH[i - 1], dlogh, k)]))

\* step 4b: Fint, summed from the outside in; tail is the analytic integral
\* from h_max to infinity, seg[i] the integrals over the segment (i-1, i)
\* Fint summed from the inside out, the tail put at the first node
RECURSIVE CtorFintAscending(_, _, _, _)
CtorFintAscending(seg, tail, n, j) ==
    IF j = 1 THEN tail ELSE FAdd(seg[j].F, CtorFintAscending(seg, tail, n, j - 1))
RECURSIVE CtorFint(_, _, _, _)
CtorFint(seg, tail, n, j) ==
    IF j = n THEN tail ELSE FAdd(seg[j + 1].F, CtorFint(seg, tail, n, j + 1))

\* step 4c: an integral summed from the inside out; first is the analytic
\* integral from 0 to h_min, segv[i] the integral over the segment (i-1, i)
RECURSIVE CtorCumul(_, _, _)

\* the table of step 4c without the summation over the inner segments
CtorCumulNoSum(segv, first, j) == IF j = 1 THEN first ELSE segv[j]
CtorCumul(segv, first, j) ==
    IF j = 1 THEN first ELSE FAdd(segv[j], CtorCumul(segv, first, j - 1))

\* the loop looking at the mass at the node it assigns, not at the next one
RECURSIVE CtorHtransitionNoMargin(_, _, _, _, _)
CtorHtransitionNoMargin(gridH, gridFGint, totalMass, i, cur) ==
    IF i < Len(gridH) - 1 /\ FLt(gridFGint[i + 1], FMul(totalMass, 999))
    THEN CtorHtransitionNoMargin(gridH, gridFGint, totalMass, i + 1, gridH[i + 1])
    ELSE cur
\* the value of h separating the two regimes of computing f(h); i is the
\* loop index of the source (0-based), cur the value assigned so far
RECURSIVE CtorHtransition(_, _, _, _, _)
CtorHtransition(gridH, gridFGint, totalMass, i, cur) ==
    IF i < Len(gridH) - 1 /\ FLt(gridFGint[i + 2], FMul(totalMass, 999))
    THEN CtorHtransition(gridH, gridFGint, totalMass, i + 1, gridH[i + 1])
    ELSE cur

\* step 4c: the check of the total mass

\* the check of the total mass letting a zero mass through
MassRejectedBelowZero(totalMass) == ~FGe(totalMass, 0)
MassRejected(totalMass) == ~FGt(totalMass, 0)

\* step 5a: the check of the derivatives and of the four integrals at node i
InterpolatorRejected(f, h, g, E, sum) ==
    ~(FLe(FDiv(FNeg(f), g), 0) /\ FGe(f, 0) /\ FGe(FDiv(FMul(f, h), g), 0)
      /\ FGe(FMul(FNeg(f), E), 0) /\ isFinite(sum))

\* the fields of an object under construction before anything is computed
Blank ==
    [err |-> "none", step |-> 0, oob |-> FALSE, npoints |-> 0, fSeen |-> {},
     gridH |-> <<>>, gridF |-> <<>>, gridE |-> <<>>, gridG |-> <<>>,
     innerFslope |-> NAN, outerFslope |-> NAN,
     Phi0 |-> NAN, innerE |-> NAN, outerE |-> NAN,
     innerEslope |-> NAN, outerEslope |-> NAN,
     gridFint |-> <<>>, gridFGint |-> <<>>, gridFHint |-> <<>>, gridFEint |-> <<>>,
     gridFder |-> <<>>, gridFGder |-> <<>>, gridFHder |-> <<>>, gridFEder |-> <<>>,
     totalMass |-> NAN, htransition |-> NAN,
     pv |-> [A |-> 0, q |-> 0, c |-> 0, defect |-> "none"],
     local |-> FALSE, intJ1 |-> <<>>, intJ3 |-> <<>>, warned |-> {}]

\* The constructor runs step after step, each step handing the object built so
\* far (r) to the next one; the steps are defined here from the last to the
\* first.  err = "ok" is a constructed object; any other value of err names
\* the exception thrown, and the other fields then hold what had been computed
\* when it was thrown; step is the last step of the constructor entered.

\* step 5b: the check of the interpolators; r8 is r with the derivatives stored
CtorFinal(r, r8) ==
    IF \E i \in 1..r.npoints :
          InterpolatorRejected(r.gridF[i], r.gridH[i], r.gridG[i], r.gridE[i],
              FAdd(FAdd(FAdd(r.gridFint[i], r.gridFGint[i]), r.gridFHint[i]),
                   r.gridFEint[i]))
    THEN [r8 EXCEPT !.err = "InvalidInterpolators"]
    ELSE [r8 EXCEPT !.err = "ok"]

\* step 5a: htransition and the derivatives of the four integrals
CtorInterpolators(r) ==
    LET npoints == r.npoints
    IN  CtorFinal(r,
          [r EXCEPT !.step = 7,
              !.htransition = CtorHtransition(r.gridH, r.gridFGint, r.totalMass, 1, r.gridH[1]),
              !.gridFder  = [i \in 1..npoints |-> FDiv(FNeg(r.gridF[i]), r.gridG[i])],
              !.gridFGder = [i \in 1..npoints |-> IF i = npoints THEN 0 ELSE r.gridF[i]],
              !.gridFHder = [i \in 1..npoints |-> IF i = npoints THEN 0
                                ELSE FDiv(FMul(r.gridF[i], r.gridH[i]), r.gridG[i])],
              !.gridFEder = [i \in 1..npoints |-> IF i = npoints THEN 0
                                ELSE FMul(FNeg(r.gridF[i]), r.gridE[i])]])

\* step 4c: the check of the total mass
CtorMassive(r7) ==
    IF MassRejected(r7.totalMass)
    THEN [r7 EXCEPT !.err = "ZeroOrNegativeMass"]
    ELSE CtorInterpolators(r7)

\* step 4c: the last entries of the tables summed from the inside out are
\* corrected by the analytic integrals beyond h_max, and the tables stored
CtorTables(r6, gridFint, cumFG, cumFH, cumFE) ==
    LET npoints   == r6.npoints
        Fn        == r6.gridF[npoints]
        Hn        == r6.gridH[npoints]
        outerSum  == FAdd(FAdd(SCALE, r6.outerEslope), r6.outerFslope)
        gridFGint == [cumFG EXCEPT ![npoints] =
                        FSub(@, FDiv(FMul(Fn, Hn), FAdd(SCALE, r6.outerFslope)))]
    IN  CtorMassive(
          [r6 EXCEPT !.step = 6, !.gridFint = gridFint, !.gridFGint = gridFGint,
              !.gridFHint = [cumFH EXCEPT ![npoints] =
                    FSub(@, FDiv(FDiv(FMul(Fn, pow_2(Hn)), r6.gridG[npoints]), outerSum))],
              !.gridFEint = [cumFE EXCEPT ![npoints] =
                    FAdd(@, FDiv(FMul(FMul(Fn, Hn), r6.outerE), outerSum))],
              !.totalMass = gridFGint[npoints]])

\* steps 4a to 4c: the check of the DF at the quadrature nodes, and the four
\* tables summed over the segments seg from the analytic integrals beyond the
\* two ends of the grid
CtorSegments(r, innerE, outerRatio, seg) ==
    LET npoints  == r.npoints
        badSegs  == {i \in 2..npoints : seg[i].bad}
        r6       == [r EXCEPT !.step = 5,
                              !.fSeen = @ \cup UNION {seg[i].fs : i \in 2..npoints}]
        FintTail == FDiv(FMul(FNeg(r.gridF[npoints]), r.outerE), FAdd(SCALE, outerRatio))
        FG1      == FDiv(FMul(r.gridF[1], r.gridH[1]), FAdd(SCALE, r.innerFslope))
        FH1      == FDiv(FDiv(FMul(r.gridF[1], pow_2(r.gridH[1])), r.gridG[1]),
                         FAdd(FAdd(SCALE, r.innerEslope), r.innerFslope))
        FE1      == FMul(FMul(r.gridF[1], r.gridH[1]),
                         IF FGe(r.innerEslope, 0)
                         THEN FDiv(FNeg(r.Phi0), FAdd(SCALE, r.innerFslope))
                         ELSE FDiv(FNeg(innerE),
                                   FAdd(FAdd(SCALE, r.innerFslope), r.innerEslope)))
    IN  IF badSegs # {}
        THEN [r6 EXCEPT !.err = "InvalidDF"]
        ELSE CtorTables(r6,
                 Vec([j \in 1..npoints |-> CtorFint(seg, FintTail, npoints, j)]),
                 Vec([j \in 1..npoints |->
                          CtorCumul(Vec([i \in 1..npoints |-> seg[i].FG]), FG1, j)]),
                 Vec([j \in 1..npoints |->
                          CtorCumul(Vec([i \in 1..npoints |-> seg[i].FH]), FH1, j)]),
                 Vec([j \in 1..npoints |->
                          CtorCumul(Vec([i \in 1..npoints |-> seg[i].FE]), FE1, j)]))

\* step 4a: the integrals over the segments; r is the object after step 3b,
\* innerE the energy of the first node, relative to Phi(0) when that is finite
CtorIntegrals(r, df, gridLogH, innerE, outerRatio) ==
    CtorSegments(r, innerE, outerRatio,
        Vec([i \in 1..r.npoints |->
                IF i = 1
                THEN [bad |-> FALSE, fs |-> {}, F |-> 0, FG |-> 0, FH |-> 0, FE |-> 0]
                ELSE Segment(r.pv, df, gridLogH, i)]))

\* step 3b: the checks of the slopes of E(h); r4 is the object after the check
\* of the energy range
CtorEslopes(r4, df, gridLogH, innerE, innerEslope, outerEslope) ==
    LET r5 == [r4 EXCEPT !.innerEslope = innerEslope, !.outerEslope = outerEslope]
    IN  IF \/ OuterEslopeRejected(outerEslope)
           \/ InnerSlopeSumRejected(innerEslope, r4.innerFslope)
        THEN [r5 EXCEPT !.err = "InconsistentPotentialDF"]
        ELSE CtorIntegrals(r5, df, gridLogH, innerE, FDiv(r4.outerFslope, outerEslope))

\* step 3b: the check of the energy range
CtorRange(r, df, gridLogH, Phi0) ==
    LET npoints == r.npoints
        innerE0 == r.gridE[1]
        outerE  == r.gridE[npoints]
        innerE  == IF Phi0 # NINF THEN FSub(innerE0, Phi0) ELSE innerE0
        r4      == [r EXCEPT !.step = 4,
                             !.Phi0 = Phi0, !.innerE = innerE0, !.outerE = outerE]
    IN  IF EnergyRangeRejected(Phi0, innerE0, outerE)
        THEN [r4 EXCEPT !.err = "InconsistentPotentialDF"]
        ELSE CtorEslopes(r4, df, gridLogH, innerE,
                         FDiv(FDiv(r.gridH[1], r.gridG[1]), innerE),
                         FDiv(FDiv(r.gridH[npoints], r.gridG[npoints]), outerE))

\* step 3b: r is the object after step 3a
CtorEnergy(r, df, gridLogH) == CtorRange(r, df, gridLogH, PVPhi0(r.pv))

\* step 3a: the checks of the two slopes of f(h), and the snapping of the
\* boundary values
CtorSnap(r2, df, gridLogH, innerRaw, outerRaw) ==
    LET npoints     == r2.npoints
        F0          == r2.gridF
        innerFslope == IF Snapped(F0[1]) THEN 0 ELSE innerRaw
        F1          == IF Snapped(F0[1]) THEN [F0 EXCEPT ![1] = 0] ELSE F0
        outerFslope == IF Snapped(F1[npoints]) THEN 0 ELSE outerRaw
        gridF       == IF Snapped(F1[npoints]) THEN [F1 EXCEPT ![npoints] = 0] ELSE F1
        r3          == [r2 EXCEPT !.step = 3, !.oob = ~df.hasDeriv /\ npoints < 2,
                                  !.innerFslope = innerFslope, !.gridF = F1]
    IN  IF InnerSlopeRejected(F0[1], innerRaw)
        THEN [r3 EXCEPT !.err = "DivergentMass", !.innerFslope = innerRaw]
        ELSE IF OuterSlopeRejected(F1[npoints], outerRaw)
        THEN [r3 EXCEPT !.err = "DivergentMass", !.outerFslope = outerRaw]
        ELSE CtorEnergy([r3 EXCEPT !.gridF = gridF, !.outerFslope = outerFslope],
                        df, gridLogH)

\* step 3a: the slopes of f(h) at the two ends; r2 is the object after step 2
CtorSlopes(r2, df, gridLogH, nodes, junk) ==
    CtorSnap(r2, df, gridLogH, CtorInnerFslope(df, nodes, gridLogH, junk),
                               CtorOuterFslope(df, nodes, gridLogH, junk))

\* step 2: the tables at the nodes, and the check of the DF there
CtorTabulated(pv, df, gridLogH, nodes, junk) ==
    LET npoints  == Len(gridLogH)
        r2       == [Blank EXCEPT !.step = 2, !.pv = pv, !.npoints = npoints,
                                  !.gridH = Vec([i \in 1..npoints |-> nodes[i].h]),
                                  !.gridF = Vec([i \in 1..npoints |-> nodes[i].f]),
                                  !.gridE = Vec([i \in 1..npoints |-> nodes[i].E]),
                                  !.gridG = Vec([i \in 1..npoints |-> nodes[i].g]),
                                  !.fSeen = {nodes[i].f : i \in 1..npoints}]
        badNodes == {i \in 1..npoints : BadF(nodes[i].f)}
    IN  IF badNodes # {}
        THEN [r2 EXCEPT !.err = "InvalidDF",
                        !.fSeen = {nodes[i].f :
                            i \in {j \in 1..npoints : \A b \in badNodes : j <= b}}]
        ELSE CtorSlopes(r2, df, gridLogH, nodes, junk)

\* steps 1 and 2 on the grid in log(h)
CtorOnGrid(pv, df, gridLogH, junk) ==
    CtorTabulated(pv, df, gridLogH, CtorNodes(pv, df, gridLogH), junk)

\* The constructor for a caller-supplied grid
Ctor(pv, df, gridh, junk) == CtorOnGrid(pv, df, CtorGridLogH(gridh), junk)

\* ------------------------------------------------------------------------
\* math::LogLogSpline: the interpolator of a table (x, v) with derivatives d
\* ------------------------------------------------------------------------

\* a value kept between the two tabulated values that enclose it
ClampBetween(y, a, b) == FMax(FMin(a, b), FMin(y, FMax(a, b)))

\* the index of the grid segment [x[i], x[i+1]) that holds h (x[1] <= h < x[n])
SegmentOf(x, h) == CHOOSE i \in 1..(Len(x) - 1) : FLe(x[i], h) /\ FLt(h, x[i + 1])

\* power-law extrapolation beyond an end node from the derivative there
LogLogExtrapolate(x0, v0, d0, h) ==
    IF v0 = 0 \/ d0 = 0 THEN v0
    ELSE FMul(v0, FPow(FDiv(h, x0), FDiv(FMul(d0, x0), v0)))

\* the value of the spline at h > 0: the tabulated value at a node, a
\* monotonic interpolation in log-log coordinates between two nodes, and a
\* power-law extrapolation outside the grid
LogLogSplineValue(spl, h) ==
    LET n == Len(spl.x)
    IN  IF FLe(h, spl.x[1])
        THEN (IF h = spl.x[1] THEN spl.v[1]
              ELSE FMin(spl.v[1], LogLogExtrapolate(spl.x[1], spl.v[1], spl.d[1], h)))
        ELSE IF FGe(h, spl.x[n])
        THEN (IF h = spl.x[n] THEN spl.v[n]
              ELSE LogLogExtrapolate(spl.x[n], spl.v[n], spl.d[n], h))
        ELSE LET i  == SegmentOf(spl.x, h)
                 t  == FDiv(FSub(FLog(h), FLog(spl.x[i])),
                            FSub(FLog(spl.x[i + 1]), FLog(spl.x[i])))
                 la == FLog(spl.v[i])
                 lb == FLog(spl.v[i + 1])
                 y  == IF isFinite(la) /\ isFinite(lb)
                       THEN FExp(FAdd(la, FMul(FSub(lb, la), t)))
                       ELSE FAdd(spl.v[i], FMul(FSub(spl.v[i + 1], spl.v[i]), t))
             IN  IF h = spl.x[i] THEN spl.v[i] ELSE ClampBetween(y, spl.v[i], spl.v[i + 1])

\* the four splines of a constructed model
intf(m)  == [x |-> m.gridH, v |-> m.gridFint,  d |-> m.gridFder]
intfg(m) == [x |-> m.gridH, v |-> m.gridFGint, d |-> m.gridFGder]
intfh(m) == [x |-> m.gridH, v |-> m.gridFHint, d |-> m.gridFHder]
intfE(m) == [x |-> m.gridH, v |-> m.gridFEint, d |-> m.gridFEder]

\* ------------------------------------------------------------------------
\* Queries of SphericalIsotropicModel
\* ------------------------------------------------------------------------

I0(m, h) == LogLogSplineValue(intf(m), h)

cumulMass(m, h) == IF h = PINF THEN m.totalMass ELSE LogLogSplineValue(intfg(m), h)

cumulEkin(m, h) == FMul(1500, LogLogSplineValue(intfh(m), h))

cumulEtotal(m, h) == FNeg(LogLogSplineValue(intfE(m), h))

\* the first and the second derivative of a function that is locally the
\* power law v (h'/h)^s, and of one that is locally v + k log(h'/h)
PowerLawDerivs(v, s, h) ==
    [der  |-> FDiv(FMul(s, v), h),
     der2 |-> FDiv(FDiv(FMul(FMul(s, FSub(s, SCALE)), v), h), h)]

LogLinearDerivs(k, h) == [der |-> FDiv(k, h), der2 |-> FNeg(FDiv(FDiv(k, h), h))]

\* the derivatives of the spline at or beyond node i, where the tabulated
\* derivative d[i] gives the power-law index d x / v
LogLogNodeDerivs(spl, i, v, h) ==
    IF spl.v[i] = 0 \/ v = 0 THEN [der |-> IF h = spl.x[i] THEN spl.d[i] ELSE 0, der2 |-> 0]
    ELSE PowerLawDerivs(v, FDiv(FMul(spl.d[i], spl.x[i]), spl.v[i]), h)

\* the derivatives of the spline inside segment i, from the logarithms of the
\* two tabulated values and of the two nodes
LogLogSegmentDerivs(spl, i, v, h, la, lb, lx, ly) ==
    IF isFinite(la) /\ isFinite(lb)
    THEN PowerLawDerivs(v, FDiv(FSub(lb, la), FSub(ly, lx)), h)
    ELSE LogLinearDerivs(FDiv(FSub(spl.v[i + 1], spl.v[i]), FSub(ly, lx)), h)

LogLogInnerDerivs(spl, i, v, h) ==
    IF h = spl.x[i] THEN LogLogNodeDerivs(spl, i, v, h)
    ELSE LogLogSegmentDerivs(spl, i, v, h, FLog(spl.v[i]), FLog(spl.v[i + 1]),
                             FLog(spl.x[i]), FLog(spl.x[i + 1]))

\* spl.evalDeriv(h, NULL, &der, &der2): the derivatives of the spline at h > 0
LogLogSplineDerivs(spl, h) ==
    IF FLe(h, spl.x[1]) THEN LogLogNodeDerivs(spl, 1, LogLogSplineValue(spl, h), h)
    ELSE IF FGe(h, spl.x[Len(spl.x)])
    THEN LogLogNodeDerivs(spl, Len(spl.x), LogLogSplineValue(spl, h), h)
    ELSE LogLogInnerDerivs(spl, SegmentOf(spl.x, h), LogLogSplineValue(spl, h), h)

\* phasevol.E(h, &g, &dgdh): the derivative of g(h)
PVdgdhOf(pv, h, g, hq) ==
    FMul(g, FSub(FDiv(FDiv(FMul(2 * pv.q, hq), h), FAdd(pv.c, hq)),
                 FDiv(FSub(pv.q, SCALE), h)))

PVdgdh(pv, h) == PVdgdhOf(pv, h, PVg(pv, h), FPow(h, pv.q))

\* the branch of evalDeriv that differentiates intfg
evalDerivDirectAtTransition(h, htransition) == FLe(h, htransition)
evalDerivDirect(h, htransition) == FLt(h, htransition)

\* what the caller's two variables hold after evalDeriv: a null pointer leaves
\* the variable as it was
evalDerivOut(wantF, wantDfdh, oldF, oldDfdh, f, dfdh) ==
    [f |-> IF wantF THEN f ELSE oldF, dfdh |-> IF wantDfdh THEN dfdh ELSE oldDfdh]

evalDerivFromFG(wantF, wantDfdh, oldF, oldDfdh, d) ==
    evalDerivOut(wantF, wantDfdh, oldF, oldDfdh, d.der, d.der2)

evalDerivFromF(wantF, wantDfdh, oldF, oldDfdh, d, g, dgdh) ==
    evalDerivOut(wantF, wantDfdh, oldF, oldDfdh,
                 FMul(FNeg(d.der), g),
                 FSub(FMul(FNeg(d.der2), g), FMul(d.der, dgdh)))

\* model.evalDeriv(h, f, dfdh): wantF and wantDfdh tell which pointers are not null
evalDeriv(m, h, wantF, wantDfdh, oldF, oldDfdh) ==
    IF evalDerivDirect(h, m.htransition)
    THEN evalDerivFromFG(wantF, wantDfdh, oldF, oldDfdh, LogLogSplineDerivs(intfg(m), h))
    ELSE evalDerivFromF(wantF, wantDfdh, oldF, oldDfdh, LogLogSplineDerivs(intf(m), h),
                        PVg(m.pv, h), PVdgdh(m.pv, h))

\* model.value(h) of math::IFunction: the value of the DF
value(m, h) == evalDeriv(m, h, TRUE, FALSE, 0, 0).f

\* ------------------------------------------------------------------------
\* computeDensity
\* ------------------------------------------------------------------------

\* the length of segment i of the grid in Phi; the last segment ends at 0
CdDeltaPhi(gridPhi, i) ==
    FSub(IF i < Len(gridPhi) THEN gridPhi[i + 1] ELSE 0, gridPhi[i])

\* the k-th quadrature node of segment i: the potential and the weight
CdNode(df, pv, gridPhi, i, k) ==
    LET deltaPhi == CdDeltaPhi(gridPhi, i)
        y        == GLPOINTS(GLORDER)[k]
        Phi      == FAdd(gridPhi[i], FMulSq(y, deltaPhi))
        weight   == FMul(FMul(FMul(FMul(FMul(GLWEIGHTS(GLORDER)[k], 2 * SCALE), y), deltaPhi),
                              DFvalue(df, PVvalue(pv, Phi))),
                         FMul(4 * M_PI, M_SQRT2))
    IN  [Phi |-> Phi, weight |-> weight]

\* the contribution of a node to the integrals expressing rho(Phi[j])
CdVal(node, gridPhi, j) ==
    LET dif == FSub(node.Phi, gridPhi[j])
    IN  [dif |-> dif, val |-> IF FGt(dif, 0) THEN FMul(FSqrt(dif), node.weight) ELSE 0]

\* what computeDensity leaves behind: result and disp are the sums over the
\* segments that were completed
CdOutput(raised, wantDisp, oldDisp, result, disp) ==
    IF raised = "none"
    THEN [raised |-> raised, result |-> result,
          gridVelDisp |-> IF wantDisp
                          THEN Vec([i \in 1..Len(result) |->
                                FSqrt(FDiv(FMul(FDiv(2 * SCALE, 3 * SCALE), disp[i]), result[i]))])
                          ELSE oldDisp]
    ELSE [raised |-> raised, result |-> <<>>,
          gridVelDisp |-> IF wantDisp THEN disp ELSE oldDisp]

\* the loop over the segments: it stops at the first segment that throws
\* for its length or fails an assertion; val[m][j] is the contribution of the
\* quadrature node m to rho(Phi[j])
CdLoop(gridPhi, wantDisp, oldDisp, assertsOn, val) ==
    LET gridsize == Len(gridPhi)
        thrown   == {i \in 1..gridsize : FLe(CdDeltaPhi(gridPhi, i), 0)}
        failed   == {i \in 1..gridsize :
                        \E k \in 1..GLORDER, j \in 1..i :
                            ~FGe(val[(i - 1) * GLORDER + k][j].dif, 0)}
        throwAt  == Minimum(thrown \cup {gridsize + 1})
        abortAt  == IF assertsOn THEN Minimum(failed \cup {gridsize + 1}) ELSE gridsize + 1
        done     == (IF throwAt <= abortAt THEN throwAt ELSE abortAt) - 1
    IN  CdOutput(IF throwAt <= abortAt /\ throwAt <= gridsize THEN "runtime_error"
                 ELSE IF abortAt <= gridsize THEN "abort"
                 ELSE "none",
                 wantDisp, oldDisp,
                 Vec([j \in 1..gridsize |->
                        FSumAll(Vec([m \in 1..(done * GLORDER) |-> val[m][j].val]))]),
                 Vec([j \in 1..gridsize |->
                        FSumAll(Vec([m \in 1..(done * GLORDER) |->
                                    FMul(val[m][j].val, val[m][j].dif)]))]))

\* the contributions of the quadrature nodes to the integrals
CdVals(gridPhi, wantDisp, oldDisp, assertsOn, node) ==
    CdLoop(gridPhi, wantDisp, oldDisp, assertsOn,
           Vec([m \in 1..(Len(gridPhi) * GLORDER) |->
                Vec([j \in 1..Len(gridPhi) |->
                    IF j <= ((m - 1) \div GLORDER) + 1
                    THEN CdVal(node[m], gridPhi, j)
                    ELSE [dif |-> 0, val |-> 0]])]))

\* computeDensity(df, pv, gridPhi, gridVelDisp).  wantDisp tells whether
\* gridVelDisp is a non-null pointer, oldDisp is the content of the caller's
\* vector before the call, assertsOn whether the build keeps assert().
\* raised is "none", "runtime_error", or "abort" for a failed assertion;
\* result is the returned vector, gridVelDisp the caller's vector afterwards.
computeDensity(df, pv, gridPhi, wantDisp, oldDisp, assertsOn) ==
    CdVals(gridPhi, wantDisp, oldDisp, assertsOn,
           Vec([m \in 1..(Len(gridPhi) * GLORDER) |->
                CdNode(df, pv, gridPhi, ((m - 1) \div GLORDER) + 1, ((m - 1) % GLORDER) + 1)]))

\* ------------------------------------------------------------------------
\* computeProjectedDensity
\* ------------------------------------------------------------------------

\* a profile handed in by the caller as a math::IFunction: amp (1 + r^2)^slope
FncValue(fnc, r) == FMul(fnc.amp, FPow(FAdd(SCALE, pow_2(r)), fnc.slope))

\* the length of segment i of the grid in R; the last segment extends to infinity
CpdDeltar(gridR, i) ==
    IF i = Len(gridR) THEN gridR[i] ELSE FSub(gridR[i + 1], gridR[i])

\* the k-th quadrature node of segment i: the radius, the weight and velDisp^2
CpdNode(dens, velDisp, gridR, i, k) ==
    LET last   == i = Len(gridR)
        deltar == CpdDeltar(gridR, i)
        y      == GLPOINTS(GLORDER)[k]
        r      == IF last THEN FDivOneMinusSq(gridR[i], y)
                  ELSE FAdd(gridR[i], FMulSq(y, deltar))
        jac    == IF last THEN FDivOneMinusSq(FDivOneMinusSq(2 * y, y), y) ELSE 2 * y
        weight == FMul(FMul(FMul(FMul(FMul(GLWEIGHTS(GLORDER)[k], jac), deltar),
                                 FncValue(dens, r)), 2 * SCALE), r)
    IN  [r |-> r, weight |-> weight, velsq |-> pow_2(FncValue(velDisp, r))]

\* the contribution of a node to the integrals expressing Sigma(R[j])
CpdVal(node, gridR, j) ==
    LET dif == FSub(pow_2(node.r), pow_2(gridR[j]))
    IN  [dif |-> dif, val |-> FDiv(node.weight, FSqrt(dif))]

\* what computeProjectedDensity leaves behind
CpdOutput(raised, finished, projDens, projDisp) ==
    [raised |-> raised,
     gridProjDensity |-> projDens,
     gridProjVelDisp |-> IF finished
                         THEN Vec([i \in 1..Len(projDens) |->
                                    FSqrt(FDiv(projDisp[i], projDens[i]))])
                         ELSE projDisp]

\* the loop over the segments: it stops at the first segment that throws
\* for its length or fails an assertion; val[m][j] is the contribution of the
\* quadrature node m to Sigma(R[j])
CpdLoop(gridR, assertsOn, node, val) ==
    LET gridsize == Len(gridR)
        thrown   == {i \in 1..gridsize : FLe(CpdDeltar(gridR, i), 0)}
        failed   == {i \in 1..gridsize :
                        \E k \in 1..GLORDER, j \in 1..i :
                            ~FGt(val[(i - 1) * GLORDER + k][j].dif, 0)}
        throwAt  == Minimum(thrown \cup {gridsize + 1})
        abortAt  == IF assertsOn THEN Minimum(failed \cup {gridsize + 1}) ELSE gridsize + 1
        done     == (IF throwAt <= abortAt THEN throwAt ELSE abortAt) - 1
    IN  CpdOutput(IF throwAt <= abortAt /\ throwAt <= gridsize THEN "runtime_error"
                  ELSE IF abortAt <= gridsize THEN "abort"
                  ELSE "none",
                  done = gridsize,
                  Vec([j \in 1..gridsize |->
                        FSumAll(Vec([m \in 1..(done * GLORDER) |-> val[m][j].val]))]),
                  Vec([j \in 1..gridsize |->
                        FSumAll(Vec([m \in 1..(done * GLORDER) |->
                                    IF j <= ((m - 1) \div GLORDER) + 1
                                    THEN FMul(val[m][j].val, node[m].velsq)
                                    ELSE 0]))]))

\* the contributions of the quadrature nodes to the integrals
CpdVals(gridR, assertsOn, node) ==
    CpdLoop(gridR, assertsOn, node,
            Vec([m \in 1..(Len(gridR) * GLORDER) |->
                 Vec([j \in 1..Len(gridR) |->
                     IF j <= ((m - 1) \div GLORDER) + 1
                     THEN CpdVal(node[m], gridR, j)
                     ELSE [dif |-> SCALE, val |-> 0]])]))

\* computeProjectedDensity(dens, velDisp, gridR, gridProjDensity, gridProjVelDisp).
\* raised is "none", "runtime_error", or "abort" for a failed assertion; the
\* other two fields are the caller's vectors after the call.
computeProjectedDensity(dens, velDisp, gridR, assertsOn) ==
    CpdVals(gridR, assertsOn,
            Vec([m \in 1..(Len(gridR) * GLORDER) |->
                 CpdNode(dens, velDisp, gridR, ((m - 1) \div GLORDER) + 1, ((m - 1) % GLORDER) + 1)]))

\* ------------------------------------------------------------------------
\* Numerical primitives used by SphericalIsotropicModelLocal
\* ------------------------------------------------------------------------

\* sqrt(pi) and e of <cmath>
M_SQRTPI == 1772 + 0
M_E == 2718 + 0

pow_3(a) == FMul(a, FMul(a, a))

\* math::clamp(x, low, upp)
clamp(x, low, upp) == IF FLt(x, low) THEN low ELSE IF FGt(x, upp) THEN upp ELSE x

\* math::gamma(x) for x >= 2, by Stirling's series
gamma(x) ==
    FMul(FMul(FSqrt(FDiv(2 * M_PI, x)), FPow(FDiv(x, M_E), x)),
         FAdd(FAdd(SCALE, FDiv(SCALE, 12 * x)), FDiv(SCALE, FMul(288 * x, x))))

\* the number of terms of the hypergeometric series that are summed
HyperTerms == 16

\* the terms n, n+1, ... of the Gauss series of 2F1(a, b; c; z), term being term n
RECURSIVE hypergeomSeries(_, _, _, _, _, _)
hypergeomSeries(a, b, c, z, n, term) ==
    IF n >= HyperTerms \/ term = 0 THEN term
    ELSE FAdd(term,
              hypergeomSeries(a, b, c, z, n + 1,
                  FMul(FMul(term, FDiv(FMul(FAdd(a, n * SCALE), FAdd(b, n * SCALE)),
                                       FMul(FAdd(c, n * SCALE), (n + 1) * SCALE))), z)))

\* math::hypergeom2F1(a, b, c, z) for 0 <= z < 1; the evaluation is not
\* robust, and fails tells that this one returns a non-finite number
hypergeom2F1(a, b, c, z, fails) ==
    IF fails THEN NAN ELSE hypergeomSeries(a, b, c, z, 0, SCALE)

\* math::createNonuniformGrid(nnodes, xmin, xmax, true): nnodes nodes from 0
\* to xmax, the first step being xmin and the nodes spreading geometrically
createNonuniformGrid(nnodes, xmin, xmax) ==
    Vec([j \in 1..nnodes |->
            IF j = 1 THEN 0
            ELSE IF j = nnodes THEN xmax
            ELSE IF xmax = FMul((nnodes - 1) * SCALE, xmin) THEN FMul((j - 1) * SCALE, xmin)
            ELSE FMul(xmin, FPow(FDiv(xmax, xmin),
                                 FDiv((j - 2) * SCALE, (nnodes - 2) * SCALE)))])

\* math::integrateGL(fnc, x1, x2, N): the N-point Gauss-Legendre rule on [x1, x2]
integrateGL(fnc(_), x1, x2, N) ==
    FSumAll(Vec([k \in 1..N |->
        FMul(FMul(GLWEIGHTS(N)[k], FSub(x2, x1)),
             fnc(FAdd(x1, FMul(FSub(x2, x1), GLPOINTS(N)[k]))))]))

\* math::ScalingCub(x1, x2): the cubic change of variable
\* x(s) = x1 + (x2 - x1) s^2 (3 - 2 s) for s in [0, 1], and dx/ds
ScalingCubX(x1, x2, s) ==
    FAdd(x1, FMul(FSub(x2, x1), FMul(FMul(s, s), FSub(3 * SCALE, 2 * s))))

ScalingCubDxDs(x1, x2, s) ==
    FMul(FSub(x2, x1), FMul(6 * s, FSub(SCALE, s)))

\* phasevol.deltaE(logh1, logh2): E(h1) - E(h2) for h1 >= h2
PVdeltaE(pv, logh1, logh2) ==
    FMax(FSub(PVenergy(pv, FExp(logh1)), PVenergy(pv, FExp(logh2))), 0)

\* math::CubicSpline2d(x, y, z).value(X, Y): the interpolated value of the
\* table z inside the grid, NaN outside it
Spline2dCell(grid, X) ==
    IF X = grid[Len(grid)] THEN Len(grid) - 1 ELSE SegmentOf(grid, X)

Spline2dValue(spl, X, Y) ==
    IF \/ ~FGe(X, spl.x[1]) \/ ~FLe(X, spl.x[Len(spl.x)])
       \/ ~FGe(Y, spl.y[1]) \/ ~FLe(Y, spl.y[Len(spl.y)])
    THEN NAN
    ELSE LET i  == Spline2dCell(spl.x, X)
             j  == Spline2dCell(spl.y, Y)
             tx == FDiv(FSub(X, spl.x[i]), FSub(spl.x[i + 1], spl.x[i]))
             ty == FDiv(FSub(Y, spl.y[j]), FSub(spl.y[j + 1], spl.y[j]))
             a  == FAdd(spl.z[i][j], FMul(FSub(spl.z[i + 1][j], spl.z[i][j]), tx))
             b  == FAdd(spl.z[i][j + 1], FMul(FSub(spl.z[i + 1][j + 1], spl.z[i][j + 1]), tx))
         IN  FAdd(a, FMul(FSub(b, a), ty))

\* ------------------------------------------------------------------------
\* SphericalIsotropicModelLocal::init
\* ------------------------------------------------------------------------

\* the number of nodes of the grid in Y
npointsY == 4

\* The integrals J0acc, J1acc, J3acc of init() are small against the values
\* they are made of; they are held with FINE more resolution than the other
\* numbers, that is in units of 1 / FINE.
FINE == SCALE

\* SphericalIsotropicDFIntegrand<P>::value: the value v0 of f h / g and the
\* speed w give v0 w^P, the factors of w applied one by one
DFIntegrandPow(P, v0, w) ==
    IF P = 0 THEN v0
    ELSE IF P = 1 THEN FMul(v0, w)
    ELSE FMul(FMul(FMul(v0, w), w), w)

\* f(h) h / g(h) in units of 1 / FINE
DFIntegrandAt(df, pv, h) ==
    FMul(FDiv(FMul(DFvalue(df, h), h), PVg(pv, h)), FINE * SCALE)

\* SphericalIsotropicDFIntegrand<P>::value(logh) of the row at logh0, for
\* P = 0, 1, 3, in units of 1 / FINE
DFIntegrand(df, pv, logh0, P, logh) ==
    DFIntegrandPow(P, DFIntegrandAt(df, pv, FExp(logh)),
                   FSqrt(PVdeltaE(pv, logh, logh0)))

\* the trailing nodes where the DF does not exceed the threshold are dropped
RECURSIVE LocalTrim(_, _)
LocalTrim(df, gridLogH) ==
    IF gridLogH # <<>> /\ FLe(DFvalue(df, FExp(gridLogH[Len(gridLogH)])), MIN_VALUE_ROUNDOFF)
    THEN LocalTrim(df, SubSeq(gridLogH, 1, Len(gridLogH) - 1))
    ELSE gridLogH

\* the slope of f(h) taken at the first node of the grid
LocalOuterFslopeAtFirst(df, gridLogH) ==
    IF df.hasDeriv
    THEN FMul(FDiv(DFderiv(df, FExp(gridLogH[1])), DFvalue(df, FExp(gridLogH[1]))),
              FExp(gridLogH[1]))
    ELSE FDiv(FLog(FDiv(DFvalue(df, FExp(gridLogH[2])), DFvalue(df, FExp(gridLogH[1])))),
              FSub(gridLogH[2], gridLogH[1]))
\* the slope of f(h) at the last node of a grid of at least three nodes
LocalOuterFslope(df, gridLogH) ==
    LET npoints == Len(gridLogH)
        outerH  == FExp(gridLogH[npoints])
    IN  IF df.hasDeriv
        THEN FMul(FDiv(DFderiv(df, outerH), DFvalue(df, outerH)), outerH)
        ELSE FDiv(FLog(FDiv(DFvalue(df, outerH), DFvalue(df, FExp(gridLogH[npoints - 1])))),
                  FSub(gridLogH[npoints], gridLogH[npoints - 1]))

\* the check of the outer slope of f(h)
LocalOuterSlopeRejected(outerFslope) == ~FLt(outerFslope, 0 - SCALE)

\* the check of the ratio of the outer slopes of f(h) and E(h)
LocalOuterRatioRejected(outerRatio) == ~FGt(outerRatio, 0)

\* the values of J1/J0 and J3/J0 that stand for E = Phi
FailSafeJ1 == FDiv(2 * SCALE, 3 * SCALE)
FailSafeJ3 == FDiv(2 * SCALE, 5 * SCALE)

\* the last row: the accumulators are overwritten by the analytic values,
\* unless the hypergeometric function returned a non-finite number; num holds
\* the numerically integrated ones
LocalRowAsymptotic(c, num, oneMinus, Fval1, Fval3, I0fine, sqPhi) ==
    IF isFinite(FAdd(Fval1, Fval3))
    THEN [acc |-> <<FMul(I0fine, FSub(SCALE, oneMinus)),
                    FMul(FMul(I0fine, FSub(c.outerJ1, FMul(oneMinus, Fval1))), sqPhi),
                    FMul(FMul(I0fine, FSub(c.outerJ3, FMul(oneMinus, Fval3))), pow_3(sqPhi))>>,
          asymptotic |-> TRUE]
    ELSE [acc |-> num, asymptotic |-> FALSE]

\* the last row at node j of the grid in Y, EoverPhi being E / Phi there
LocalRowLast(c, i, j, num, EoverPhi) ==
    LocalRowAsymptotic(c, num,
        FPow(EoverPhi, FAdd(SCALE, c.outerRatio)),
        hypergeom2F1(0 - 500, FAdd(SCALE, c.outerRatio),
                     FAdd(2 * SCALE, c.outerRatio), EoverPhi, j \in c.hyperBad),
        hypergeom2F1(0 - 1500, FAdd(SCALE, c.outerRatio),
                     FAdd(2 * SCALE, c.outerRatio), EoverPhi, j \in c.hyperBad),
        FMul(I0(c.base, FExp(c.gridLogH[i])), FINE * SCALE),
        FSqrt(FNeg(c.outerE)))

\* the accumulators of row i at node j: num is what the quadrature gave
LocalRowChoice(c, i, j, num) ==
    IF i < Len(c.gridLogH) THEN [acc |-> num, asymptotic |-> FALSE]
    ELSE LocalRowLast(c, i, j, num, FExp(FMul(c.gridY[j], c.outerEslope)))

\* the accumulators with the first segment integrated by the plain rule
RECURSIVE LocalRowAccPlain(_, _, _)
LocalRowAccPlain(c, i, j) ==
    LET logh0    == c.gridLogH[i]
        logHprev == FAdd(logh0, c.gridY[j - 1])
        logHcurr == FAdd(logh0, c.gridY[j])
        prev     == IF j = 2 THEN <<0, 0, 0>> ELSE LocalRowAccPlain(c, i, j - 1).acc
    IN  LocalRowChoice(c, i, j,
            Vec([p \in 1..3 |->
                    LET P == IF p = 1 THEN 0 ELSE IF p = 2 THEN 1 ELSE 3
                    IN  FAdd(prev[p],
                             integrateGL(
                               LAMBDA x : DFIntegrand(c.df, c.pv, logh0, P, x),
                               logHprev, logHcurr, GLORDER))]))
\* the accumulators J0acc, J1acc, J3acc of row i after the segment that ends at
\* the node j >= 2 of the grid in Y; c holds what the rows share
RECURSIVE LocalRowAcc(_, _, _)
LocalRowAcc(c, i, j) ==
    LET logh0    == c.gridLogH[i]
        logHprev == FAdd(logh0, c.gridY[j - 1])
        logHcurr == FAdd(logh0, c.gridY[j])
        prev     == IF j = 2 THEN <<0, 0, 0>> ELSE LocalRowAcc(c, i, j - 1).acc
    IN  LocalRowChoice(c, i, j,
            Vec([p \in 1..3 |->
                    LET P == IF p = 1 THEN 0 ELSE IF p = 2 THEN 1 ELSE 3
                    IN  IF j = 2
                        THEN integrateGL(
                               LAMBDA s : FMul(DFIntegrand(c.df, c.pv, logh0, P,
                                                   ScalingCubX(logHprev, logHcurr, s)),
                                               ScalingCubDxDs(logHprev, logHcurr, s)),
                               0, SCALE, GLORDER)
                        ELSE FAdd(prev[p],
                                  integrateGL(
                                    LAMBDA x : DFIntegrand(c.df, c.pv, logh0, P, x),
                                    logHprev, logHcurr, GLORDER))]))

\* the check of a node of the two tables, and the warnings logged for it;
\* noAsymptotic tells that the analytic values of the last row were not used
LocalCellChecked(noAsymptotic, J1overJ0, J3overJ0) ==
    LET invalid == \/ FLe(J1overJ0, 0) \/ FLe(J3overJ0, 0)
                   \/ ~isFinite(FAdd(J1overJ0, J3overJ0))
        asym    == IF noAsymptotic THEN {"Can't compute asymptotic value"} ELSE {}
    IN  IF invalid
        THEN [J1 |-> FLog(FailSafeJ1), J3 |-> FLog(FailSafeJ3),
              warned |-> asym \cup {"Invalid value"}]
        ELSE [J1 |-> FLog(J1overJ0), J3 |-> FLog(J3overJ0), warned |-> asym]

\* the ratios J1/J0 and J3/J0 from the accumulators; J3acc is divided by dv
\* three times before it is divided by J0acc, which keeps its digits
LocalCellRatios(c, i, row, dv) ==
    LocalCellChecked(i = Len(c.gridLogH) /\ ~row.asymptotic,
                     FDiv(FDiv(row.acc[2], row.acc[1]), dv),
                     FDiv(FDiv(FDiv(FDiv(row.acc[3], dv), dv), dv), row.acc[1]))

\* the node (i, j) with the column Y = 0 left as the matrix was allocated
LocalCellUnset(c, i, j) ==
    IF j = 1
    THEN [J1 |-> 0, J3 |-> 0, warned |-> {}]
    ELSE LocalCellRatios(c, i, LocalRowAcc(c, i, j),
            FSqrt(PVdeltaE(c.pv, FAdd(c.gridLogH[i], c.gridY[j]), c.gridLogH[i])))
\* the node (i, j) of the two tables: the logarithms of J1/J0 and J3/J0, and
\* the warnings logged for it
LocalCell(c, i, j) ==
    IF j = 1
    THEN [J1 |-> FLog(FailSafeJ1), J3 |-> FLog(FailSafeJ3), warned |-> {}]
    ELSE LocalCellRatios(c, i, LocalRowAcc(c, i, j),
            FSqrt(PVdeltaE(c.pv, FAdd(c.gridLogH[i], c.gridY[j]), c.gridLogH[i])))

\* init() hands its steps one to the next; they are defined here from the last
\* to the first.

\* the two 2d splines are made of the tables, and the warnings kept
LocalInitStore(base, c, cells) ==
    LET npoints == Len(c.gridLogH)
    IN  [base EXCEPT !.err = "ok", !.local = TRUE,
            !.intJ1 = [x |-> c.gridLogH, y |-> c.gridY,
                       z |-> Vec([i \in 1..npoints |->
                                Vec([j \in 1..npointsY |-> cells[i][j].J1])])],
            !.intJ3 = [x |-> c.gridLogH, y |-> c.gridY,
                       z |-> Vec([i \in 1..npoints |->
                                Vec([j \in 1..npointsY |-> cells[i][j].J3])])],
            !.warned = UNION {{<<i, j, w>> : w \in cells[i][j].warned} :
                                 i \in 1..npoints, j \in 1..npointsY}]

\* the loop over the rows and the nodes in Y
LocalInitCells(base, c) ==
    LocalInitStore(base, c,
        Vec([i \in 1..Len(c.gridLogH) |-> Vec([j \in 1..npointsY |-> LocalCell(c, i, j)])]))

\* the asymptotic value of J3/J0 from that of J1/J0; c0 holds what was
\* computed before
LocalInitJ(base, c0, outerJ1) ==
    LocalInitCells(base,
        [pv |-> c0.pv, df |-> c0.df, gridLogH |-> c0.gridLogH, gridY |-> c0.gridY,
         outerE |-> c0.outerE, outerEslope |-> c0.outerEslope,
         outerRatio |-> c0.outerRatio, hyperBad |-> c0.hyperBad, base |-> base,
         outerJ1 |-> outerJ1,
         outerJ3 |-> FDiv(FMul(outerJ1, 1500), FAdd(2500, c0.outerRatio))])

\* the checks of the outer slopes, and the asymptotic value of J1/J0
LocalInitSlopes(base, pv, df, gridLogH, hyperBad, gridY, outerH, outerFslope, outerE, outerG) ==
    LET outerEslope == FDiv(FDiv(outerH, outerG), outerE)
        outerRatio  == FDiv(outerFslope, outerEslope)
    IN  IF LocalOuterSlopeRejected(outerFslope) THEN [base EXCEPT !.err = "DivergentMass"]
        ELSE IF LocalOuterRatioRejected(outerRatio)
        THEN [base EXCEPT !.err = "WeirdPhaseVolume"]
        ELSE LocalInitJ(base,
                [pv |-> pv, df |-> df, gridLogH |-> gridLogH, gridY |-> gridY,
                 outerE |-> outerE, outerEslope |-> outerEslope,
                 outerRatio |-> outerRatio, hyperBad |-> hyperBad],
                FDiv(FMul(FMul(500, M_SQRTPI), gamma(FAdd(2 * SCALE, outerRatio))),
                     gamma(FAdd(2500, outerRatio))))

\* E and g at the last node
LocalInitOuter(base, pv, df, gridLogH, hyperBad, gridY, outerH, outerFslope) ==
    LocalInitSlopes(base, pv, df, gridLogH, hyperBad, gridY, outerH, outerFslope,
                    PVenergy(pv, outerH), PVg(pv, outerH))

\* the check of the trimmed grid, and the grid in Y
LocalInitOnGrid(base, pv, df, gridLogH, hyperBad) ==
    LET npoints   == Len(gridLogH)
        logHmin   == gridLogH[1]
        logHmax   == gridLogH[npoints]
        mindeltaY == FMin(100, FDiv(FSub(logHmax, logHmin), npointsY * SCALE))
    IN  IF npoints < 3 THEN [base EXCEPT !.err = "NowherePositive"]
        ELSE LocalInitOuter(base, pv, df, gridLogH, hyperBad,
                 createNonuniformGrid(npointsY, mindeltaY, FSub(logHmax, logHmin)),
                 FExp(gridLogH[npoints]), LocalOuterFslope(df, gridLogH))

\* init(df, gridh) for a caller-supplied grid, on the base object just
\* constructed; hyperBad holds the nodes in Y of the last row where
\* hypergeom2F1 returns a non-finite number
LocalInit(base, pv, df, gridh, hyperBad) ==
    LocalInitOnGrid(base, pv, df, LocalTrim(df, CtorGridLogH(gridh)), hyperBad)

\* init() runs on a base object that was constructed
CtorLocalInit(base, pv, df, gridh, hyperBad) ==
    IF base.err # "ok" THEN base ELSE LocalInit(base, pv, df, gridh, hyperBad)

\* SphericalIsotropicModelLocal(phasevol, df, gridh): the base class is
\* constructed first, then init() builds the two tables
CtorLocal(pv, df, gridh, junk, hyperBad) ==
    CtorLocalInit(Ctor(pv, df, gridh, junk), pv, df, gridh, hyperBad)

\* ------------------------------------------------------------------------
\* Queries of SphericalIsotropicModelLocal
\* ------------------------------------------------------------------------

xmin(spl) == spl.x[1]
xmax(spl) == spl.x[Len(spl.x)]
ymin(spl) == spl.y[1]
ymax(spl) == spl.y[Len(spl.y)]

\* the check of the arguments of evalLocal
EvalLocalRejectedForPhiOnly(Phi, hPhi, hE) == ~FLt(Phi, 0)
EvalLocalRejected(Phi, hPhi, hE) == ~(FLt(Phi, 0) /\ FGe(hE, hPhi))

\* the check of the argument of sampleVelocity, density and velDisp
PhiRejectedAboveZero(Phi) == FGt(Phi, 0)
PhiRejected(Phi) == ~FLt(Phi, 0)

\* the three outputs of evalLocal from the integrals; J1a and J3a are J1 and
\* J3 before the correction for E >= 0
evalLocalOut(Phi, E, I0E, J1a, J3a, mult) ==
    LET corr == FDiv(SCALE, FSqrt(FSub(SCALE, FDiv(E, Phi))))
        J1   == IF FGe(E, 0) THEN FMul(J1a, corr) ELSE J1a
        J3   == IF FGe(E, 0) THEN FMul(J3a, pow_3(corr)) ELSE J3a
    IN  [raised |-> "none",
         out |-> <<FMul(FMul(FNeg(mult), J1), 3 * SCALE),
                   FMul(mult, FAdd(I0E, J3)),
                   FMul(mult, FSub(FAdd(FMul(I0E, 2 * SCALE), FMul(J1, 3 * SCALE)), J3))>>]

\* J0, and J1 and J3 from the two tables at (X, Y)
evalLocalJ(m, Phi, E, I0E, I0Phi, X, Y) ==
    LET J0 == FMax(FSub(I0Phi, I0E), 0)
    IN  evalLocalOut(Phi, E, I0E,
            FMul(FExp(Spline2dValue(m.intJ1, X, Y)), J0),
            FMul(FExp(Spline2dValue(m.intJ3, X, Y)), J0),
            FMul(FDiv(FMul(FMul(32 * SCALE, M_PI), M_PI), 3 * SCALE), cumulMass(m, PINF)))

\* the check of the arguments, hPhi and hE being the phase volumes at Phi and E
evalLocalChecked(m, Phi, E, old, hPhi, hE) ==
    IF EvalLocalRejected(Phi, hPhi, hE)
    THEN [raised |-> "invalid_argument", out |-> old]
    ELSE evalLocalJ(m, Phi, E, I0(m, hE), I0(m, hPhi),
                    clamp(FLog(hPhi), xmin(m.intJ1), xmax(m.intJ1)),
                    clamp(FLog(FDiv(hE, hPhi)), ymin(m.intJ1), ymax(m.intJ1)))

\* evalLocal(Phi, E, dvpar, dv2par, dv2per): the exception thrown and the
\* three outputs, old being what the caller's variables held
evalLocal(m, Phi, E, old) ==
    evalLocalChecked(m, Phi, E, old, PVvalue(m.pv, Phi), PVvalue(m.pv, E))

\* VelocitySampleRootFinder::value(loghEoverhPhi): J1 sqrt(max(E - Phi, 0))
\* minus the target, with J1 = exp(intJ1(loghPhi, loghEoverhPhi)) J0 and
\* J0 = I0plusJ0 - I0(hE)
VelocitySampleRootFinder(m, Phi, loghPhi, I0plusJ0, target, loghEoverhPhi) ==
    LET hE == FExp(FAdd(loghEoverhPhi, loghPhi))
    IN  FSub(FMul(FMul(FExp(Spline2dValue(m.intJ1, loghPhi, loghEoverhPhi)),
                       FSub(I0plusJ0, I0(m, hE))),
                  FSqrt(FMax(FSub(PVenergy(m.pv, hE), Phi), 0))),
             target)

\* the bisection of math::findRoot on [lo, hi], flo being the value at lo; it
\* ends when the interval is down to the resolution of the numbers
RECURSIVE Bisect(_, _, _, _)
Bisect(fn, lo, hi, flo) ==
    LET mid == lo + ((hi - lo) \div 2)
        Halved(fm) ==
            IF ~isFinite(fm) THEN [raised |-> "exception", root |-> NAN]
            ELSE IF fm = 0 THEN [raised |-> "none", root |-> mid]
            ELSE IF Sgn(fm) = Sgn(flo) THEN Bisect(fn, mid, hi, fm)
            ELSE Bisect(fn, lo, mid, flo)
    IN  IF hi - lo <= 1 THEN [raised |-> "none", root |-> lo]
        ELSE Halved(VelocitySampleRootFinder(fn.m, fn.Phi, fn.loghPhi, fn.I0plusJ0,
                                             fn.target, mid))

\* math::findRoot from the values f1 and f2 at the two ends: NaN unless they
\* are finite and bracket a root
findRootBracketed(fn, x1, x2, f1, f2) ==
    IF ~isFinite(f1) \/ ~isFinite(f2) \/ Sgn(f1) * Sgn(f2) > 0
    THEN [raised |-> "none", root |-> NAN]
    ELSE IF f1 = 0 THEN [raised |-> "none", root |-> x1]
    ELSE IF f2 = 0 THEN [raised |-> "none", root |-> x2]
    ELSE Bisect(fn, x1, x2, f1)

\* math::findRoot(fnc, x1, x2, EPSROOT) for the function of sampleVelocity
findRoot(fn, x1, x2) ==
    findRootBracketed(fn, x1, x2,
        VelocitySampleRootFinder(fn.m, fn.Phi, fn.loghPhi, fn.I0plusJ0, fn.target, x1),
        VelocitySampleRootFinder(fn.m, fn.Phi, fn.loghPhi, fn.I0plusJ0, fn.target, x2))

\* the check of what findRoot returned
RootRejectedBelowZero(root) == FLt(root, 0)
RootRejected(root) == ~FGe(root, 0)

\* the speed returned from what findRoot found
sampleVelocityRoot(m, Phi, loghPhi, found) ==
    IF found.raised # "none"
    THEN [raised |-> found.raised, drawn |-> 1, root |-> <<>>, result |-> <<>>]
    ELSE IF RootRejected(found.root)
    THEN [raised |-> "none", drawn |-> 1, root |-> <<found.root>>, result |-> <<0>>]
    ELSE [raised |-> "none", drawn |-> 1, root |-> <<found.root>>,
          result |-> <<FSqrt(FMul(2 * SCALE,
                          FSub(PVenergy(m.pv, FExp(FAdd(found.root, loghPhi))), Phi)))>>]

\* the target frac maxJ1 sqrt(-Phi) and the search for the root
sampleVelocityTarget(m, Phi, frac, loghPhi, I0plusJ0) ==
    sampleVelocityRoot(m, Phi, loghPhi,
        findRoot([m |-> m, Phi |-> Phi, loghPhi |-> loghPhi, I0plusJ0 |-> I0plusJ0,
                  target |-> FMul(FMul(frac,
                                       FMul(FExp(Spline2dValue(m.intJ1, loghPhi,
                                                               ymax(m.intJ1))),
                                            I0plusJ0)),
                                  FSqrt(FNeg(Phi)))],
                 ymin(m.intJ1), ymax(m.intJ1)))

\* loghPhi and I0plusJ0 from the phase volume at Phi
sampleVelocityAt(m, Phi, frac, hPhi) ==
    sampleVelocityTarget(m, Phi, frac,
        clamp(FLog(hPhi), xmin(m.intJ1), xmax(m.intJ1)), I0(m, hPhi))

\* sampleVelocity(Phi, state): the exception thrown, the number of values
\* taken from the random number generator, what findRoot returned and the
\* speed returned; frac is the value math::random(state) returns
sampleVelocity(m, Phi, frac) ==
    IF PhiRejected(Phi)
    THEN [raised |-> "invalid_argument", drawn |-> 0, root |-> <<>>, result |-> <<>>]
    ELSE sampleVelocityAt(m, Phi, frac, PVvalue(m.pv, Phi))

\* density(Phi)
density(m, Phi) ==
    LET hPhi     == PVvalue(m.pv, Phi)
        loghPhi  == clamp(FLog(hPhi), xmin(m.intJ1), xmax(m.intJ1))
        J1overJ0 == FExp(Spline2dValue(m.intJ1, loghPhi, ymax(m.intJ1)))
        I0plusJ0 == I0(m, hPhi)
    IN  IF PhiRejected(Phi)
        THEN [raised |-> "invalid_argument", result |-> <<>>]
        ELSE [raised |-> "none",
              result |-> <<FMul(FMul(FMul(FMul(FMul(4 * SCALE, M_PI), M_SQRT2),
                                          FSqrt(FNeg(Phi))), J1overJ0), I0plusJ0)>>]

\* velDisp(Phi)
velDisp(m, Phi) ==
    LET hPhi     == PVvalue(m.pv, Phi)
        loghPhi  == clamp(FLog(hPhi), xmin(m.intJ1), xmax(m.intJ1))
        J3overJ1 == FExp(FSub(Spline2dValue(m.intJ3, loghPhi, ymax(m.intJ3)),
                              Spline2dValue(m.intJ1, loghPhi, ymax(m.intJ1))))
    IN  IF PhiRejected(Phi)
        THEN [raised |-> "invalid_argument", result |-> <<>>]
        ELSE [raised |-> "none",
              result |-> <<FSqrt(FMul(FMul(FDiv(0 - 2 * SCALE, 3 * SCALE), Phi), J3overJ1))>>]

\* ------------------------------------------------------------------------
\* The diffusion coefficients difCoefEnergy and difCoefLosscone
\* ------------------------------------------------------------------------

\* 16 pi^2, as the source multiplies it out
SixteenPiSq == FMul(FMul(16 * SCALE, M_PI), M_PI)

difCoefEnergyOf(totalMass, h, g, IF0, IFG, IFH) ==
    [DeltaE  |-> FMul(FMul(SixteenPiSq, totalMass), FSub(IF0, FDiv(IFG, g))),
     DeltaE2 |-> FDiv(FMul(FMul(2 * SixteenPiSq, totalMass), FAdd(FMul(IF0, h), IFH)), g)]

difCoefEnergyAt(m, h) ==
    difCoefEnergyOf(cumulMass(m, PINF), h, PVg(m.pv, h), I0(m, h), cumulMass(m, h),
                    FMul(cumulEkin(m, h), FDiv(2 * SCALE, 3 * SCALE)))

\* difCoefEnergy(model, E, DeltaE, DeltaE2)
difCoefEnergy(m, E) == difCoefEnergyAt(m, PVvalue(m.pv, E))

\* The potential handed to difCoefLosscone, a math::IFunction:
\* Phi(r) = -amp (1 + r^2)^slope with slope < 0, and potential::R_max(pot, E),
\* the radius where Phi equals E
PotValue(pot, r) == FNeg(FMul(pot.amp, FPow(FAdd(SCALE, pow_2(r)), pot.slope)))

R_max(pot, E) ==
    IF ~FLt(E, 0) THEN PINF
    ELSE IF FLe(E, FNeg(pot.amp)) THEN 0
    ELSE FSqrt(FSub(FPow(FDiv(FNeg(E), pot.amp), FDiv(SCALE, pot.slope)), SCALE))

\* the term of the inner quadrature at the energy Ep
LossconeAt(m, Phi, w, iE, Ep) ==
    FMul(FMul(FMul(FMul(GLWEIGHTS(GLORDER)[iE], w), value(m, PVvalue(m.pv, Ep))),
              FSqrt(FMul(2 * SCALE, FSub(Ep, Phi)))),
         FSub(SCALE, FMul(FDiv(SCALE, 3 * SCALE), GLPOINTS(GLORDER)[iE])))

LossconeInner(m, E, Phi, w, iE) ==
    LossconeAt(m, Phi, w, iE,
               FAdd(FMul(E, GLPOINTS(GLORDER)[iE]),
                    FMul(Phi, FSub(SCALE, GLPOINTS(GLORDER)[iE]))))

\* the terms of the inner quadrature at the radius r of node ir
LossconeRow(m, E, Phi, w) ==
    [iE \in 1..GLORDER |-> LossconeInner(m, E, Phi, w, iE)]

LossconeOuter(m, pot, E, rmax, g, ir, r) ==
    LossconeRow(m, E, PotValue(pot, r),
                FMul(FMul(FDiv(FMul(FMul(FMul(8 * SCALE, M_PI), M_PI), rmax), g), pow_2(r)),
                     GLWEIGHTS(GLORDER)[ir]))

\* all terms in the order in which the two loops add them to result
LossconeTerms(m, pot, E, rmax, g) ==
    [ir \in 1..GLORDER |->
        LossconeOuter(m, pot, E, rmax, g, ir, FMul(GLPOINTS(GLORDER)[ir], rmax))]

\* result after all terms were added to it, n of them already added, the inner
\* loop running fastest; a NaN stays a NaN whatever is added
RECURSIVE LossconeSum(_, _, _)
LossconeSum(terms, result, n) ==
    IF n = GLORDER * GLORDER \/ result = NAN THEN result
    ELSE LossconeSum(terms,
                     FAdd(result, terms[(n \div GLORDER) + 1][(n % GLORDER) + 1]),
                     n + 1)

difCoefLossconeOf(m, pot, E, h, rmax, g, dgdh) ==
    FMul(FMul(LossconeSum(LossconeTerms(m, pot, E, rmax, g),
                          FMul(FMul(FDiv(2 * SCALE, 3 * SCALE), dgdh), I0(m, h)), 0),
              SixteenPiSq),
         cumulMass(m, PINF))

difCoefLossconeAt(m, pot, E, h) ==
    difCoefLossconeOf(m, pot, E, h, R_max(pot, E), PVg(m.pv, h), PVdgdh(m.pv, h))

\* difCoefLosscone(model, pot, E)
difCoefLosscone(m, pot, E) == difCoefLossconeAt(m, pot, E, PVvalue(m.pv, E))

\* ------------------------------------------------------------------------
\* samplePosVel
\* ------------------------------------------------------------------------

\* acos(x) of <cmath> for -1 <= x <= 1, by the polynomial of Hastings
FAcosUpper(x) ==
    FMul(FSqrt(FSub(SCALE, x)),
         FAdd(1571, FMul(x, FAdd(0 - 212, FMul(x, FAdd(74, FMul(x, 0 - 19)))))))

FAcos(x) == IF x < 0 THEN FSub(M_PI, FAcosUpper(FNeg(x))) ELSE FAcosUpper(x)

\* how many numbers math::sampleNdim draws for a row of its result, one for
\* each of the two dimensions, and how many math::getRandomUnitVector draws
DrawsPerRow == 1 + 1
DrawsPerVector == 1 + 1

\* fnc.unscalerv(scaledr, scaledv, r, v, Phi): the radius and the speed
unscalervOut(scaledv, r, Phi) ==
    [r |-> r, v |-> FMul(scaledv, FSqrt(FMul(0 - 2 * SCALE, Phi))), Phi |-> Phi]

unscalervAt(pot, scaledv, r) == unscalervOut(scaledv, r, PotValue(pot, r))

unscalerv(pot, scaledr, scaledv) ==
    unscalervAt(pot, scaledv, FDiv(scaledr, FSub(SCALE, scaledr)))

\* the particle made of row i of the sample: u1 and u2 are the two values of
\* math::random(), vdir the direction from math::getRandomUnitVector
samplePosVelPoint(rv, u1, u2, vdir, pointMass) ==
    [r |-> rv.r, theta |-> FAcos(FSub(FMul(u1, 2 * SCALE), SCALE)),
     phi |-> FMul(FMul(2 * SCALE, M_PI), u2),
     vel |-> <<FMul(rv.v, vdir[1]), FMul(rv.v, vdir[2]), FMul(rv.v, vdir[3])>>,
     mass |-> pointMass]

\* samplePosVel(pot, df, numPoints): rows is the matrix math::sampleNdim
\* returned and totalMass its estimate of the integral; u and vdir hold, for
\* each row, what math::random() and math::getRandomUnitVector returned.
\* drawn tells how many numbers were taken from the generator behind
\* math::random(), the only one there is without a state handed in.
samplePosVel(pot, rows, totalMass, u, vdir) ==
    [points |-> [i \in 1..Len(rows) |->
                    samplePosVelPoint(unscalerv(pot, rows[i][1], rows[i][2]),
                                      u[i][1], u[i][2], vdir[i],
                                      FDiv(totalMass, Len(rows) * SCALE))],
     drawn  |-> Len(rows) * (DrawsPerRow + 2 + DrawsPerVector)]

\* ------------------------------------------------------------------------
\* The Python module: setUnits
\* ------------------------------------------------------------------------

\* km/s in a Kpc/Myr, the ratio of the units of velocity of units::
KmsPerKpcMyr == 978 * SCALE

\* units::ExternalUnits(unit, length, velocity, mass), in Kpc, km/s and Msun
ExternalUnits(length, velocity, mass) ==
    [mass |-> mass, length |-> length, velocity |-> velocity,
     time |-> FDiv(FMul(length, KmsPerKpcMyr), velocity)]

\* onlyNamedArgs(args, namedArgs) and PyArg_ParseTupleAndKeywords: named tells
\* that the call gave keyword arguments only, all of them numbers
setUnitsParsed(named) == named

\* the first check of the values
setUnitsNegative(mass, length, velocity, time) ==
    FLt(mass, 0) \/ FLt(length, 0) \/ FLt(velocity, 0) \/ FLt(time, 0)

\* setUnits(mass=, length=, velocity=, time=) with the conversion old
\* installed; an argument not given is 0
setUnits(old, named, mass, length, velocity, time) ==
    IF ~setUnitsParsed(named) THEN [raised |-> "TypeError", conv |-> old]
    ELSE IF setUnitsNegative(mass, length, velocity, time)
    THEN [raised |-> "ValueError", conv |-> old]
    ELSE IF FGt(length, 0) /\ FGt(velocity, 0) /\ FGt(time, 0)
    THEN [raised |-> "ValueError", conv |-> old]
    ELSE IF mass = 0 THEN [raised |-> "ValueError", conv |-> old]
    ELSE IF FGt(length, 0) /\ FGt(time, 0)
    THEN [raised |-> "none",
          conv |-> ExternalUnits(length, FMul(FDiv(length, time), KmsPerKpcMyr), mass)]
    ELSE IF FGt(length, 0) /\ FGt(velocity, 0)
    THEN [raised |-> "none", conv |-> ExternalUnits(length, velocity, mass)]
    ELSE IF FGt(time, 0) /\ FGt(velocity, 0)
    THEN [raised |-> "none",
          conv |-> ExternalUnits(FDiv(FMul(velocity, time), KmsPerKpcMyr), velocity, mass)]
    ELSE [raised |-> "ValueError", conv |-> old]

\* ------------------------------------------------------------------------
\* The Python module: nonuniformGrid
\* ------------------------------------------------------------------------

\* the check of the arguments once xmax has its value
nonuniformGridRejected(nnodes, xmin_, xmax_) ==
    nnodes < 2 \/ FLe(xmin_, 0) \/ FLe(xmax_, xmin_)

nonuniformGridChecked(nnodes, xmin_, xmax_) ==
    IF nonuniformGridRejected(nnodes, xmin_, xmax_)
    THEN [raised |-> "ValueError", result |-> <<>>]
    ELSE [raised |-> "none", result |-> createNonuniformGrid(nnodes, xmin_, xmax_)]

\* nonuniformGrid(nnodes, xmin, xmax): parsed tells that nnodes and xmin were
\* given and are numbers; xmax is NaN when it was not given
nonuniformGrid(parsed, nnodes, xmin_, xmax_) ==
    IF ~parsed THEN [raised |-> "TypeError", result |-> <<>>]
    ELSE nonuniformGridChecked(nnodes, xmin_,
             IF ~isFinite(xmax_) THEN FMul((nnodes - 1) * SCALE, xmin_) ELSE xmax_)

\* ------------------------------------------------------------------------
\* Inputs
\* ------------------------------------------------------------------------

\* the largest number of nodes of a caller-supplied grid
MaxPoints == 3

\* the values of h a caller-supplied grid is made of
HVals == {1000, 2000, 4000, 8000}

\* the ascending grids of at most MaxPoints nodes
RECURSIVE AscendingFrom(_, _)
AscendingFrom(len, above) ==
    IF len = 0 THEN {<<>>}
    ELSE UNION {{<<h>> \o rest : rest \in AscendingFrom(len - 1, h)} :
                    h \in {v \in HVals : v > above}}

\* the grid of all values of h, which the constructor always meets
FullGrid == <<1000, 2000, 4000, 8000>>

\* a grid whose segment is longer than ln(2) and shorter than GLDELTA
NearLn2Grid == <<1000, 2010>>

Grids == UNION {AscendingFrom(len, 0) : len \in 1..MaxPoints} \cup {FullGrid, NearLn2Grid}

\* a DF without a defect
PlainDF(amp, sIn, sOut, hasDeriv) ==
    [amp |-> amp, hb |-> 2000, sIn |-> sIn, sOut |-> sOut, hasDeriv |-> hasDeriv,
     hcut |-> PINF, badLo |-> PINF, badHi |-> NINF, bad |-> 0]

\* the places where a defective DF returns its bad value: the first grid
\* node, an interior grid node, and a stretch that only quadrature nodes hit
BadPlaces == {<<1000, 1000>>, <<2000, 2000>>, <<1100, 1150>>}

DFs ==
    {PlainDF(1000, sIn, sOut, d) :
        sIn \in {0, 0 - 500, 0 - 1500}, sOut \in {0 - 2000, 0 - 1000, 0 - 500}, d \in BOOLEAN}
    \cup {PlainDF(amp, 0, 0 - 2000, d) : amp \in {0, 4}, d \in BOOLEAN}
    \cup {[PlainDF(1000, 0, sOut, d) EXCEPT !.hcut = 3000] :
            sOut \in {0 - 2000, 0 - 500}, d \in BOOLEAN}
    \cup {[PlainDF(1000, 0, 0 - 2000, d) EXCEPT !.badLo = pl[1], !.badHi = pl[2], !.bad = b] :
            pl \in BadPlaces, b \in {0 - 1000, NAN, PINF}, d \in BOOLEAN}

PlainPV(q, c) == [A |-> 1000, q |-> q, c |-> c, defect |-> "none"]

PVs ==
    {PlainPV(500, 0), PlainPV(500, 1000), PlainPV(667, 0)}
    \cup {[PlainPV(500, 0) EXCEPT !.defect = d] : d \in {"nanE", "decr", "posE", "negG", "nanG"}}

\* what a read beyond the end of a vector may find
JunkVals == {0, 3000, NAN}

\* the arguments of the queries in h
HQuery == {500, 1000, 1500, 2000, 3000, 4000, 6000, 8000, 16000, PINF}

\* the values a caller-supplied grid in Phi is made of, and the grids
PhiVals == {0 - 10000, 0 - 5000, 0, NAN, NINF}

RECURSIVE SeqsOf(_, _)
SeqsOf(S, len) ==
    IF len = 0 THEN {<<>>} ELSE {<<x>> \o rest : x \in S, rest \in SeqsOf(S, len - 1)}

PhiGrids == UNION {SeqsOf(PhiVals, len) : len \in 0..MaxPoints}

\* the values a caller-supplied grid in R is made of, and the grids
RVals == {3000, 6000, 0 - 3000, NAN}

RGrids == UNION {SeqsOf(RVals, len) : len \in 0..MaxPoints}

\* the DF and the phase volume handed to computeDensity
DensDFs == {PlainDF(1000, 0, 0 - 2000, FALSE)}

DensPVs == {PlainPV(500, 0)}

\* the density and the velocity dispersion handed to computeProjectedDensity
DensFncs == {[amp |-> 1000 * SCALE, slope |-> 0 - 1500]}

VelDispFncs == {[amp |-> 1000, slope |-> 0 - 250]}

\* what the caller's output vectors hold before a call
OldVecs == {<<7000, 7000>>}

\* the arguments of the construction of a SphericalIsotropicModelLocal
LocalPVs == {PlainPV(500, 0), PlainPV(667, 0)}

LocalDFs ==
    {PlainDF(10 * SCALE, 0, 0 - 2000, d) : d \in BOOLEAN}
    \cup {PlainDF(10 * SCALE, 0, 0 - 500, FALSE),
          [PlainDF(10 * SCALE, 0, 0 - 2000, FALSE) EXCEPT !.hcut = 3000],
          [PlainDF(10 * SCALE, 0, 0 - 500, FALSE) EXCEPT !.hcut = 5000]}

LocalGrids == {g \in Grids : Len(g) >= 2 /\ Len(g) <= MaxPoints} \cup {FullGrid}

\* the nodes in Y where the hypergeometric function may fail
HyperBads == {{}, {3}}

\* the arguments of the queries in Phi and in E
PhiQuery == {0 - 2000, 0 - 800, 0 - 600, 0 - 400, 0 - 100, 0, 500, NAN, NINF}

EQuery == {0 - 2000, 0 - 800, 0 - 600, 0 - 400, 0 - 100, 0, 300, NAN}

\* the values math::random returns, in [0, 1)
RandomVals == {0, 500, 999}

\* what the caller's three output variables of evalLocal hold before a call
OldOuts == {<<7000, 7000, 7000>>}

\* the bound energies at which the diffusion coefficients are asked for
EBound == {E \in EQuery : FLt(E, 0)}

\* the potentials handed to difCoefLosscone
Pots == {[amp |-> 1000, slope |-> 0 - 500]}

\* the queries of one argument that return by value; the model lets them follow
\* each other in any order, and lets any other query be the first call only
ByValue == {"I0", "cumulMass", "cumulEkin", "cumulEtotal"}

\* the numbers of particles asked of samplePosVel
NumPoints == {0, 1}

\* what math::sampleNdim returns: a matrix of numPoints rows, and the integral
SampleRows(numPoints) == SeqsOf(RandomVals \X RandomVals, numPoints)

SampleMasses == {SCALE}

\* the pairs math::random() returns for each row, and the unit vectors
RandomPairs(numPoints) == SeqsOf(RandomVals \X RandomVals, numPoints)

UnitVectors(numPoints) == SeqsOf({<<SCALE, 0, 0>>, <<0, 0, 0 - SCALE>>}, numPoints)

\* the largest number of OmpDisabler objects alive at a time
MaxDisablers == 4

\* the arguments handed to nonuniformGrid
NnodesVals == {0 - 1, 1, 2, 3, 4}

XminVals == {0 - SCALE, 0, 500, SCALE, NAN}

XmaxVals == {0 - SCALE, 500, SCALE, 2 * SCALE, 3 * SCALE, 8 * SCALE, PINF, NAN}

\* the values handed to setUnits for each of its four arguments
UnitVals == {0 - SCALE, 0, SCALE, NAN}

\* what the caller's two output variables of evalDeriv hold before a call
OldDeriv == 0 - 7000

\* ------------------------------------------------------------------------
\* State
\* ------------------------------------------------------------------------

VARIABLES
    input,            \* the arguments of the construction
    obj,              \* the object: Blank before construction, then the outcome
    call,             \* the last call: its name, arguments, exception and result,
                      \* and in inner what it drew and found on the way
    gridVelDisp,      \* the caller's vector handed to computeDensity
    gridProjDensity,  \* the caller's vectors handed to computeProjectedDensity
    gridProjVelDisp,
    dvpar,            \* the caller's variables handed to evalLocal
    dv2par,
    dv2per,
    state,            \* the caller's math::PRNGState: how many values were drawn
    outF,             \* the caller's variables handed to evalDeriv
    outDfdh,
    randomState,      \* the generator behind math::random(): how many values were drawn
    conv,             \* the unit conversion installed in the Python module
    maxThreads,       \* what omp_get_max_threads() returns
    disablers         \* the OmpDisabler objects alive, each with its origMaxThreads

vars == <<input, obj, call, gridVelDisp, gridProjDensity, gridProjVelDisp,
          dvpar, dv2par, dv2per, state, outF, outDfdh, randomState, conv,
          maxThreads, disablers>>

\* the outputs of the free functions, and those of the local queries
densOut == <<gridVelDisp, gridProjDensity, gridProjVelDisp>>
localOut == <<dvpar, dv2par, dv2per>>
derivOut == <<outF, outDfdh>>

\* what lives outside the objects of the core: the generator of math::random,
\* and the state of the Python module
process == <<randomState, conv, maxThreads, disablers>>

\* no conversion installed yet
NoConv == [mass |-> 0, length |-> 0, velocity |-> 0, time |-> 0]

\* the process as the core finds it: nothing drawn, no conversion, no
\* OmpDisabler, and OpenMP allowed its default number of threads
DefaultThreads == 4

InitProcess ==
    /\ randomState = 0
    /\ conv = NoConv
    /\ maxThreads = DefaultThreads
    /\ disablers = {}

NoInput == [pv |-> PlainPV(0, 0), df |-> PlainDF(0, 0, 0, FALSE), gridh |-> <<>>,
            hyperBad |-> {}]
NoCall == [op |-> "none", arg |-> <<>>, raised |-> "none", result |-> <<>>, inner |-> <<>>]

\* ---- construction of a SphericalIsotropicModel and its queries ----

Init ==
    /\ input = NoInput
    /\ obj = Blank
    /\ call = NoCall
    /\ gridVelDisp = <<>>
    /\ gridProjDensity = <<>>
    /\ gridProjVelDisp = <<>>
    /\ dvpar = 0 /\ dv2par = 0 /\ dv2per = 0
    /\ state = 0
    /\ outF = OldDeriv /\ outDfdh = OldDeriv
    /\ InitProcess

\* SphericalIsotropicModel(phasevol, df, gridh)
Construct ==
    /\ obj.err = "none"
    /\ \E pv \in PVs, df \in DFs, gridh \in Grids :
         \E junk \in (IF ~df.hasDeriv /\ Len(gridh) < 2 THEN JunkVals ELSE {0}) :
            /\ input' = [pv |-> pv, df |-> df, gridh |-> gridh, hyperBad |-> {}]
            /\ obj' = Ctor(pv, df, gridh, junk)
    /\ UNCHANGED <<call, densOut, localOut, state, derivOut, process>>

\* model.cumulMass(h)
CumulMass ==
    /\ obj.err = "ok"
    /\ call.op \in ByValue \cup {"none"}
    /\ \E h \in HQuery :
         call' = [op |-> "cumulMass", arg |-> <<h>>, raised |-> "none",
                  result |-> <<cumulMass(obj, h)>>, inner |-> <<>>]
    /\ UNCHANGED <<input, obj, densOut, localOut, state, derivOut, process>>

\* model.evalDeriv(h, f, dfdh), either pointer null or not
EvalDeriv ==
    /\ obj.err = "ok"
    /\ call.op = "none"
    /\ \E h \in HQuery \ {PINF}, wantF \in BOOLEAN, wantDfdh \in BOOLEAN :
          LET Returned(r) ==
                  /\ call' = [op |-> "evalDeriv", arg |-> <<h, wantF, wantDfdh>>,
                              raised |-> "none", result |-> <<>>, inner |-> <<>>]
                  /\ outF' = r.f
                  /\ outDfdh' = r.dfdh
          IN  Returned(evalDeriv(obj, h, wantF, wantDfdh, outF, outDfdh))
    /\ UNCHANGED <<input, obj, densOut, localOut, state, process>>

\* model.I0(h)
CallI0 ==
    /\ obj.err = "ok"
    /\ call.op \in ByValue \cup {"none"}
    /\ \E h \in HQuery :
         call' = [op |-> "I0", arg |-> <<h>>, raised |-> "none",
                  result |-> <<I0(obj, h)>>, inner |-> <<>>]
    /\ UNCHANGED <<input, obj, densOut, localOut, state, derivOut, process>>

\* cumulEkin keeping the value it looked up in the table of the model
CumulEkinStoring ==
    /\ obj.err = "ok"
    /\ call.op \in ByValue \cup {"none"}
    /\ \E h \in HQuery :
         /\ call' = [op |-> "cumulEkin", arg |-> <<h>>, raised |-> "none",
                     result |-> <<cumulEkin(obj, h)>>, inner |-> <<>>]
         /\ obj' = [obj EXCEPT !.gridFHint[1] = LogLogSplineValue(intfh(obj), h)]
    /\ UNCHANGED <<input, densOut, localOut, state, derivOut, process>>
\* model.cumulEkin(h)
CumulEkin ==
    /\ obj.err = "ok"
    /\ call.op \in ByValue \cup {"none"}
    /\ \E h \in HQuery :
         call' = [op |-> "cumulEkin", arg |-> <<h>>, raised |-> "none",
                  result |-> <<cumulEkin(obj, h)>>, inner |-> <<>>]
    /\ UNCHANGED <<input, obj, densOut, localOut, state, derivOut, process>>

\* model.cumulEtotal(h)
CumulEtotal ==
    /\ obj.err = "ok"
    /\ call.op \in ByValue \cup {"none"}
    /\ \E h \in HQuery :
         call' = [op |-> "cumulEtotal", arg |-> <<h>>, raised |-> "none",
                  result |-> <<cumulEtotal(obj, h)>>, inner |-> <<>>]
    /\ UNCHANGED <<input, obj, densOut, localOut, state, derivOut, process>>

\* difCoefEnergy(model, E, DeltaE, DeltaE2); the two results go to references
\* of the caller, recorded in the call
DifCoefEnergy ==
    /\ obj.err = "ok"
    /\ call.op = "none"
    /\ \E E \in EBound :
          LET Returned(r) ==
                  call' = [op |-> "difCoefEnergy", arg |-> <<E>>, raised |-> "none",
                           result |-> <<r.DeltaE, r.DeltaE2>>, inner |-> <<>>]
          IN  Returned(difCoefEnergy(obj, E))
    /\ UNCHANGED <<input, obj, densOut, localOut, state, derivOut, process>>

\* difCoefLosscone(model, pot, E)
DifCoefLosscone ==
    /\ obj.err = "ok"
    /\ call.op = "none"
    /\ \E pot \in Pots, E \in EBound :
         call' = [op |-> "difCoefLosscone", arg |-> <<E>>, raised |-> "none",
                  result |-> <<difCoefLosscone(obj, pot, E)>>, inner |-> <<>>]
    /\ UNCHANGED <<input, obj, densOut, localOut, state, derivOut, process>>

Next == Construct \/ CumulMass \/ EvalDeriv \/ CallI0 \/ CumulEkin \/ CumulEtotal

Spec == Init /\ [][Next]_vars

\* ---- the free functions computeDensity and computeProjectedDensity ----

\* the caller owns output vectors with some earlier content
InitDens ==
    /\ input = NoInput
    /\ obj = Blank
    /\ call = NoCall
    /\ \E old \in OldVecs :
          /\ gridVelDisp = old
          /\ gridProjDensity = old
          /\ gridProjVelDisp = old
    /\ dvpar = 0 /\ dv2par = 0 /\ dv2per = 0
    /\ state = 0
    /\ outF = OldDeriv /\ outDfdh = OldDeriv
    /\ InitProcess

\* computeDensity(df, pv, gridPhi, gridVelDisp)
ComputeDensity ==
    /\ call.op = "none"
    /\ \E df \in DensDFs, pv \in DensPVs, gridPhi \in PhiGrids,
          wantDisp \in BOOLEAN, assertsOn \in BOOLEAN :
          LET Returned(r) ==
                  /\ call' = [op |-> "computeDensity", arg |-> <<gridPhi, wantDisp>>,
                              raised |-> r.raised, result |-> r.result, inner |-> <<>>]
                  /\ gridVelDisp' = r.gridVelDisp
          IN  Returned(computeDensity(df, pv, gridPhi, wantDisp, gridVelDisp, assertsOn))
    /\ UNCHANGED <<input, obj, gridProjDensity, gridProjVelDisp, localOut, state, derivOut, process>>

\* computeProjectedDensity(dens, velDisp, gridR, gridProjDensity, gridProjVelDisp)
ComputeProjectedDensity ==
    /\ call.op = "none"
    /\ \E dens \in DensFncs, disp \in VelDispFncs, gridR \in RGrids,
          assertsOn \in BOOLEAN :
          LET Returned(r) ==
                  /\ call' = [op |-> "computeProjectedDensity", arg |-> <<gridR>>,
                              raised |-> r.raised, result |-> <<>>, inner |-> <<>>]
                  /\ gridProjDensity' = r.gridProjDensity
                  /\ gridProjVelDisp' = r.gridProjVelDisp
          IN  Returned(computeProjectedDensity(dens, disp, gridR, assertsOn))
    /\ UNCHANGED <<input, obj, gridVelDisp, localOut, state, derivOut, process>>

NextDens == ComputeDensity \/ ComputeProjectedDensity

SpecDens == InitDens /\ [][NextDens]_vars

\* ---- construction of a SphericalIsotropicModelLocal and its queries ----

\* the caller owns three output variables with some earlier content and a
\* random number generator from which nothing was drawn yet
InitLocal ==
    /\ input = NoInput
    /\ obj = Blank
    /\ call = NoCall
    /\ gridVelDisp = <<>>
    /\ gridProjDensity = <<>>
    /\ gridProjVelDisp = <<>>
    /\ \E old \in OldOuts : dvpar = old[1] /\ dv2par = old[2] /\ dv2per = old[3]
    /\ state = 0
    /\ outF = OldDeriv /\ outDfdh = OldDeriv
    /\ InitProcess

\* SphericalIsotropicModelLocal(phasevol, df, gridh)
ConstructLocal ==
    /\ obj.err = "none"
    /\ \E pv \in LocalPVs, df \in LocalDFs, gridh \in LocalGrids, hyperBad \in HyperBads :
            /\ input' = [pv |-> pv, df |-> df, gridh |-> gridh, hyperBad |-> hyperBad]
            /\ obj' = CtorLocal(pv, df, gridh, 0, hyperBad)
    /\ UNCHANGED <<call, densOut, localOut, state, derivOut, process>>

\* model.evalLocal(Phi, E, dvpar, dv2par, dv2per)
EvalLocal ==
    /\ obj.err = "ok" /\ obj.local
    /\ call.op = "none"
    /\ \E Phi \in PhiQuery, E \in EQuery :
          LET Returned(r) ==
                  /\ call' = [op |-> "evalLocal", arg |-> <<Phi, E>>, raised |-> r.raised,
                              result |-> <<>>, inner |-> <<>>]
                  /\ dvpar' = r.out[1]
                  /\ dv2par' = r.out[2]
                  /\ dv2per' = r.out[3]
          IN  Returned(evalLocal(obj, Phi, E, <<dvpar, dv2par, dv2per>>))
    /\ UNCHANGED <<input, obj, densOut, state, derivOut, process>>

\* model.sampleVelocity(Phi, &state)
SampleVelocity ==
    /\ obj.err = "ok" /\ obj.local
    /\ call.op = "none"
    /\ \E Phi \in PhiQuery, frac \in RandomVals :
          LET Returned(r) ==
                  /\ call' = [op |-> "sampleVelocity", arg |-> <<Phi>>, raised |-> r.raised,
                              result |-> r.result,
                              inner |-> IF r.drawn = 0 THEN <<>> ELSE <<frac>> \o r.root]
                  /\ state' = state + r.drawn
          IN  Returned(sampleVelocity(obj, Phi, frac))
    /\ UNCHANGED <<input, obj, densOut, localOut, derivOut, process>>

\* model.density(Phi)
Density ==
    /\ obj.err = "ok" /\ obj.local
    /\ call.op = "none"
    /\ \E Phi \in PhiQuery :
          LET Returned(r) ==
                  call' = [op |-> "density", arg |-> <<Phi>>, raised |-> r.raised,
                           result |-> r.result, inner |-> <<>>]
          IN  Returned(density(obj, Phi))
    /\ UNCHANGED <<input, obj, densOut, localOut, state, derivOut, process>>

\* model.velDisp(Phi)
VelDisp ==
    /\ obj.err = "ok" /\ obj.local
    /\ call.op = "none"
    /\ \E Phi \in PhiQuery :
          LET Returned(r) ==
                  call' = [op |-> "velDisp", arg |-> <<Phi>>, raised |-> r.raised,
                           result |-> r.result, inner |-> <<>>]
          IN  Returned(velDisp(obj, Phi))
    /\ UNCHANGED <<input, obj, densOut, localOut, state, derivOut, process>>

NextLocal ==
    \/ ConstructLocal
    \/ EvalLocal \/ SampleVelocity \/ Density \/ VelDisp
    \/ EvalDeriv \/ CallI0 \/ CumulMass \/ CumulEkin \/ CumulEtotal
    \/ DifCoefEnergy \/ DifCoefLosscone

SpecLocal == InitLocal /\ [][NextLocal]_vars

\* ---- the free function samplePosVel ----

\* no object constructed, nothing called, nothing drawn from any generator
InitIdle ==
    /\ input = NoInput
    /\ obj = Blank
    /\ call = NoCall
    /\ gridVelDisp = <<>>
    /\ gridProjDensity = <<>>
    /\ gridProjVelDisp = <<>>
    /\ dvpar = 0 /\ dv2par = 0 /\ dv2per = 0
    /\ state = 0
    /\ outF = OldDeriv /\ outDfdh = OldDeriv
    /\ InitProcess

\* samplePosVel(pot, df, numPoints)
SamplePosVel ==
    /\ call.op = "none"
    /\ \E pot \in Pots, numPoints \in NumPoints, totalMass \in SampleMasses :
         \E rows \in SampleRows(numPoints), u \in RandomPairs(numPoints),
            vdir \in UnitVectors(numPoints) :
              LET Returned(r) ==
                      /\ call' = [op |-> "samplePosVel", arg |-> <<numPoints>>,
                                  raised |-> "none", result |-> r.points, inner |-> <<>>]
                      /\ randomState' = randomState + r.drawn
              IN  Returned(samplePosVel(pot, rows, totalMass, u, vdir))
    /\ UNCHANGED <<input, obj, densOut, localOut, state, derivOut, conv, maxThreads,
                   disablers>>

NextSample == SamplePosVel

SpecSample == InitIdle /\ [][NextSample]_vars

\* ---- the Python module: setUnits ----

\* agama.setUnits(mass=, length=, velocity=, time=)
SetUnits ==
    /\ \E named \in BOOLEAN, mass \in UnitVals, length \in UnitVals,
          velocity \in UnitVals, time \in UnitVals :
          LET Returned(r) ==
                  /\ call' = [op |-> "setUnits",
                              arg |-> <<named, mass, length, velocity, time>>,
                              raised |-> r.raised, result |-> <<>>, inner |-> <<>>]
                  /\ conv' = r.conv
          IN  Returned(setUnits(conv, named, mass, length, velocity, time))
    /\ UNCHANGED <<input, obj, densOut, localOut, state, derivOut, randomState,
                   maxThreads, disablers>>

NextUnits == SetUnits

SpecUnits == InitIdle /\ [][NextUnits]_vars

\* ---- the Python module: nonuniformGrid ----

\* agama.nonuniformGrid(nnodes, xmin, xmax), xmax given or not
NonuniformGrid ==
    /\ call.op = "none"
    /\ \E parsed \in BOOLEAN, nnodes \in NnodesVals, xmin_ \in XminVals, given \in BOOLEAN :
         \E xmax_ \in (IF given THEN XmaxVals ELSE {NAN}) :
              LET Returned(r) ==
                      call' = [op |-> "nonuniformGrid",
                               arg |-> <<parsed, nnodes, xmin_, given, xmax_>>,
                               raised |-> r.raised, result |-> r.result, inner |-> <<>>]
              IN  Returned(nonuniformGrid(parsed, nnodes, xmin_, xmax_))
    /\ UNCHANGED <<input, obj, densOut, localOut, state, derivOut, process>>

NextGrid == NonuniformGrid

SpecGrid == InitIdle /\ [][NextGrid]_vars

\* ---- the Python module: the OmpDisabler members of the wrappers ----
\* (the build with OpenMP; without it the class is empty)

\* OmpDisabler::OmpDisabler(), when a DensityWrapper, a
\* DistributionFunctionWrapper or a FncWrapper is constructed
ConstructDisabler ==
    /\ \E id \in 1..MaxDisablers :
          /\ \A d \in disablers : d.id # id
          /\ disablers' = disablers \cup {[id |-> id, origMaxThreads |-> maxThreads]}
          /\ call' = [op |-> "OmpDisabler", arg |-> <<id>>, raised |-> "none",
                      result |-> <<>>, inner |-> <<>>]
    /\ maxThreads' = 1
    /\ UNCHANGED <<input, obj, densOut, localOut, state, derivOut, randomState, conv>>

\* OmpDisabler::~OmpDisabler(), when a wrapper is destroyed; the wrappers are
\* owned by Python objects and go in any order
DestroyDisabler ==
    /\ \E d \in disablers :
          /\ disablers' = disablers \ {d}
          /\ maxThreads' = d.origMaxThreads
          /\ call' = [op |-> "~OmpDisabler", arg |-> <<d.id>>, raised |-> "none",
                      result |-> <<>>, inner |-> <<>>]
    /\ UNCHANGED <<input, obj, densOut, localOut, state, derivOut, randomState, conv>>

NextOmp == ConstructDisabler \/ DestroyDisabler

SpecOmp == InitIdle /\ [][NextOmp]_vars

\* ------------------------------------------------------------------------
\* Properties of the construction
\* ------------------------------------------------------------------------

\* C1 as stated: every constructed model has innerFslope > -1 and
\* outerFslope < -1.
C1_AsStated ==
    obj.err = "ok" =>
        FGt(obj.innerFslope, 0 - SCALE) /\ FLt(obj.outerFslope, 0 - SCALE)

\* C1, amended: a construction that gets past step 3a (in particular every
\* constructed model) has innerFslope > -1, and has outerFslope < -1 unless
\* the outer boundary value of the DF was snapped to zero, in which case
\* outerFslope = 0; and the error of step 3a is thrown only for a boundary value
\* above the threshold whose slope fails its comparison (a NaN slope fails).
C1_SlopesChecked ==
    /\ obj.step >= 4 =>
          /\ FGt(obj.innerFslope, 0 - SCALE)
          /\ \/ FLt(obj.outerFslope, 0 - SCALE)
             \/ obj.gridF[obj.npoints] = 0 /\ obj.outerFslope = 0
    /\ obj.err = "DivergentMass" =>
          /\ obj.step = 3
          /\ \/ FGt(obj.gridF[1], MIN_VALUE_ROUNDOFF)
                   /\ ~FGt(obj.innerFslope, 0 - SCALE)
             \/ FGt(obj.gridF[obj.npoints], MIN_VALUE_ROUNDOFF)
                   /\ ~FLt(obj.outerFslope, 0 - SCALE)

\* f(h) = h^-0.5 on a grid of three nodes is rejected for its outer slope
C1_Rejected ==
    /\ input.df = PlainDF(1000, 0 - 500, 0 - 500, TRUE)
    /\ Len(input.gridh) = 3
    /\ obj.err = "DivergentMass"
    /\ ~FLt(obj.outerFslope, 0 - SCALE)

\* C2 as stated: no model is constructed from a DF that returned a negative
\* or non-finite value at a grid node or at a quadrature node.
C2_AsStated ==
    obj.err = "ok" => \A f \in obj.fSeen : isFinite(f) /\ f >= 0

\* C3: a construction that gets past step 3b (in particular every constructed
\* model) has Phi(0) < E(h_min) < E(h_max) < 0, outerEslope < 0 and
\* innerEslope + innerFslope > -1; a NaN in any of them fails the
\* construction, and the error of step 3b is thrown for nothing else.
C3_EnergyChecked ==
    LET holds == /\ FLt(obj.Phi0, obj.innerE)
                 /\ FLt(obj.innerE, obj.outerE)
                 /\ FLt(obj.outerE, 0)
                 /\ FLt(obj.outerEslope, 0)
                 /\ FGt(FAdd(obj.innerEslope, obj.innerFslope), 0 - SCALE)
    IN  /\ obj.step >= 5 => holds
        /\ obj.err = "InconsistentPotentialDF" => obj.step = 4 /\ ~holds
        /\ obj.step = 4 => obj.err = "InconsistentPotentialDF"

\* a phase volume whose E(h) is NaN fails the construction at step 3b
C3_Rejected ==
    /\ obj.err = "InconsistentPotentialDF"
    /\ obj.innerE = NAN
    /\ input.pv.defect = "nanE"

\* C4: totalMass is the last entry of the table FGint; a construction that
\* gets past the check of the mass (in particular every constructed model)
\* has totalMass > 0, and a DF that is zero everywhere is rejected.
C4_TotalMass ==
    /\ obj.step >= 6 => obj.totalMass = obj.gridFGint[obj.npoints]
    /\ obj.step >= 7 => FGt(obj.totalMass, 0)
    /\ obj.err = "ZeroOrNegativeMass" => obj.step = 6 /\ ~FGt(obj.totalMass, 0)
    /\ (obj.err # "none" /\ input.df.amp = 0) => obj.err \notin {"ok", "InvalidInterpolators"}

\* the DF that is zero everywhere is rejected for its mass
C4_Rejected ==
    /\ input.df.amp = 0
    /\ Len(input.gridh) = 3
    /\ obj.err = "ZeroOrNegativeMass"
    /\ obj.totalMass = 0

C14_AsStated ==
    obj.err = "ok" =>
        LET below(k) == \A j \in 1..(k - 1) :
                            FLt(obj.gridFGint[j], FMul(obj.totalMass, 999))
            largest  == CHOOSE k \in 1..obj.npoints :
                            below(k) /\ \A m \in (k + 1)..obj.npoints : ~below(m)
        IN  obj.htransition = obj.gridH[largest]

\* C14, amended: once htransition is computed (in particular in every
\* constructed model) it is the grid node h_k with the largest k, not above
\* the last node but one, such that FGint is below 0.999 totalMass at every
\* node from the third to the one that follows h_k; the values of FGint at the
\* first two nodes are not looked at, and h_1 is taken when FGint is not
\* below 0.999 totalMass at the third node or the grid has fewer than four
\* nodes.
C14_HtransitionWithMargin ==
    obj.step >= 7 =>
        LET last     == IF obj.npoints < 3 THEN 1 ELSE obj.npoints - 1
            margin(k) == \A j \in 3..(k + 1) :
                            FLt(obj.gridFGint[j], FMul(obj.totalMass, 999))
            largest  == CHOOSE k \in 1..last :
                            margin(k) /\ \A m \in (k + 1)..last : ~margin(m)
        IN  /\ obj.htransition = obj.gridH[largest]
            /\ obj.npoints < 4 => obj.htransition = obj.gridH[1]
            /\ obj.npoints >= 3 => largest <= obj.npoints - 2

\* C14, its case: on the grid of four nodes the loop moved htransition to the
\* second node, the mass at the third node being below 0.999 totalMass
C14_Advanced ==
    /\ obj.err = "ok"
    /\ obj.npoints = 4
    /\ obj.htransition = obj.gridH[2]
    /\ FLt(obj.gridFGint[3], FMul(obj.totalMass, 999))

\* C15: evalDeriv(h, f, dfdh) takes f(h) from the derivative of the spline of
\* FGint for h < htransition, and from minus g(h) times the derivative of the
\* spline of Fint for h >= htransition, h = htransition included; it writes f
\* only when the pointer f is not null, leaves dfdh as it was when the pointer
\* dfdh is null, and raises nothing.
C15_EvalDerivBranches ==
    [][call'.op = "evalDeriv"
        => /\ call'.raised = "none"
           /\ (call'.arg[2] /\ FLt(call'.arg[1], obj.htransition))
                 => outF' = LogLogSplineDerivs(intfg(obj), call'.arg[1]).der
           /\ (call'.arg[2] /\ FGe(call'.arg[1], obj.htransition))
                 => outF' = FMul(FNeg(LogLogSplineDerivs(intf(obj), call'.arg[1]).der),
                                 PVg(obj.pv, call'.arg[1]))
           /\ ~call'.arg[2] => outF' = outF
           /\ ~call'.arg[3] => outDfdh' = outDfdh]_vars

\* C15, its case: evalDeriv was called at h = htransition with a null pointer
\* dfdh, and wrote to f the value of the second branch, which is not the
\* one the first branch gives there
C15_AtTransition ==
    /\ obj.err = "ok"
    /\ call.op = "evalDeriv"
    /\ call.arg = <<obj.htransition, TRUE, FALSE>>
    /\ outF = FMul(FNeg(LogLogSplineDerivs(intf(obj), obj.htransition).der),
                   PVg(obj.pv, obj.htransition))
    /\ outF # LogLogSplineDerivs(intfg(obj), obj.htransition).der
    /\ outDfdh = OldDeriv

\* ------------------------------------------------------------------------
\* Properties of computeDensity and computeProjectedDensity
\* ------------------------------------------------------------------------

\* C6 as stated: computeDensity throws a runtime error whenever gridPhi is not
\* strictly increasing, and throws none for a strictly increasing grid of
\* negative values.
C6_AsStated ==
    call.op = "computeDensity" =>
        LET gridPhi    == call.arg[1]
            increasing == \A i \in 1..(Len(gridPhi) - 1) : FLt(gridPhi[i], gridPhi[i + 1])
            negative   == \A i \in 1..Len(gridPhi) : FLt(gridPhi[i], 0)
        IN  /\ ~increasing => call.raised = "runtime_error"
            /\ increasing /\ negative => call.raised # "runtime_error"

\* C10 as stated: a call of computeDensity or computeProjectedDensity that
\* throws for its grid leaves the caller's output vectors as they were.
C10_AsStated ==
    [][(call'.op \in {"computeDensity", "computeProjectedDensity"}
            /\ call'.raised = "runtime_error")
        => /\ gridVelDisp' = gridVelDisp
           /\ gridProjDensity' = gridProjDensity
           /\ gridProjVelDisp' = gridProjVelDisp]_vars

\* ------------------------------------------------------------------------
\* Properties of the queries of SphericalIsotropicModelLocal
\* ------------------------------------------------------------------------

\* C7: each of evalLocal, sampleVelocity, density and velDisp throws
\* invalid_argument when Phi < 0 does not hold (Phi >= 0 or NaN), with nothing
\* drawn from the random number generator and no output written.
C7_PhiRejected ==
    [][(call.op = "none"
            /\ call'.op \in {"evalLocal", "sampleVelocity", "density", "velDisp"}
            /\ ~FLt(call'.arg[1], 0))
        => /\ call'.raised = "invalid_argument"
           /\ call'.result = <<>>
           /\ state' = state
           /\ dvpar' = dvpar /\ dv2par' = dv2par /\ dv2per' = dv2per]_vars

\* C7, its case: sampleVelocity was called with Phi = NaN and threw, the
\* random number generator untouched
C7_Rejected ==
    /\ call.op = "sampleVelocity"
    /\ call.arg[1] = NAN
    /\ call.raised = "invalid_argument"
    /\ call.inner = <<>>
    /\ state = 0

C9_SampleVelocityNeverRaises ==
    (call.op = "sampleVelocity" /\ FLt(call.arg[1], 0)) =>
        /\ call.raised = "none"
        /\ Len(call.inner) = 2
        /\ Len(call.result) = 1
        /\ ~FGe(call.inner[2], 0) => call.result[1] = 0

\* C9, its case: findRoot could not bracket a root and returned NaN, and
\* sampleVelocity returned 0
C9_NotBracketed ==
    /\ call.op = "sampleVelocity"
    /\ FLt(call.arg[1], 0)
    /\ isFinite(call.arg[1])
    /\ call.inner[2] = NAN
    /\ call.raised = "none"
    /\ call.result = <<0>>

\* ------------------------------------------------------------------------
\* Properties of the queries of a constructed model
\* ------------------------------------------------------------------------

C13_FirstColumn ==
    obj.local =>
        /\ obj.intJ1.y[1] = 0 /\ obj.intJ3.y[1] = 0
        /\ Len(obj.intJ1.z) = Len(obj.intJ1.x) /\ Len(obj.intJ3.z) = Len(obj.intJ3.x)
        /\ \A i \in 1..Len(obj.intJ1.x) :
              /\ obj.intJ1.z[i][1] = FLog(FDiv(2 * SCALE, 3 * SCALE))
              /\ obj.intJ3.z[i][1] = FLog(FDiv(2 * SCALE, 5 * SCALE))

\* C13, its case: the tables of a model on three nodes with a DF falling as
\* h^-2, whose values away from Y = 0 were integrated and differ from the
\* two fixed ones
C13_Tabulated ==
    /\ obj.local
    /\ Len(obj.intJ1.x) = 3
    /\ input.df.sOut = 0 - 2000
    /\ \A i \in 1..3 :
          /\ obj.intJ1.z[i][1] = FLog(FDiv(2 * SCALE, 3 * SCALE))
          /\ obj.intJ1.z[i][2] # obj.intJ1.z[i][1]
          /\ obj.intJ3.z[i][2] # obj.intJ3.z[i][1]

\* ------------------------------------------------------------------------
\* Properties of the sampling routines
\* ------------------------------------------------------------------------

\* C12 as stated: no call of sampleVelocity or samplePosVel draws a number from
\* the generator behind math::random(), the one that is shared by every
\* caller of the process.
C12_AsStated ==
    [][call'.op \in {"sampleVelocity", "samplePosVel"}
        => randomState' = randomState]_vars

\* ------------------------------------------------------------------------
\* Properties of the Python module
\* ------------------------------------------------------------------------

\* C16 as stated: a call of setUnits with keyword arguments installs a new
\* conversion if and only if mass > 0, none of length, velocity and time is
\* negative and exactly two of them are > 0; otherwise it raises ValueError and
\* the conversion installed before stays.
C16_AsStated ==
    [][(call'.op = "setUnits" /\ call'.arg[1])
        => LET mass     == call'.arg[2]
               length   == call'.arg[3]
               velocity == call'.arg[4]
               time     == call'.arg[5]
               positive == {i \in 3..5 : FGt(call'.arg[i], 0)}
               valid    == /\ FGt(mass, 0)
                           /\ ~FLt(length, 0) /\ ~FLt(velocity, 0) /\ ~FLt(time, 0)
                           /\ Cardinality(positive) = 2
           IN  /\ valid => call'.raised = "none" /\ conv'.mass = mass
               /\ ~valid => call'.raised = "ValueError" /\ conv' = conv]_vars

\* C17 as stated: whenever at least one OmpDisabler object exists, the
\* maximum number of threads of OpenMP is 1.
C17_AsStated ==
    disablers # {} => maxThreads = 1

\* C18 as stated: whenever no OmpDisabler object exists, the maximum number
\* of threads of OpenMP is what it was before the first one was constructed.
C18_AsStated ==
    disablers = {} => maxThreads = DefaultThreads

\* C19 as stated: a call of nonuniformGrid whose arguments are parsed is
\* accepted whenever nnodes >= 2, xmin > 0 and xmax is not given, and raises
\* ValueError only when nnodes < 2, xmin <= 0, or xmax is given and xmax <= xmin.
C19_AsStated ==
    (call.op = "nonuniformGrid" /\ call.arg[1]) =>
        LET nnodes == call.arg[2]
            xmin_   == call.arg[3]
            given  == call.arg[4]
            xmax_   == call.arg[5]
        IN  /\ (nnodes >= 2 /\ FGt(xmin_, 0) /\ ~given) => call.raised = "none"
            /\ call.raised = "ValueError"
                  => nnodes < 2 \/ FLe(xmin_, 0) \/ (given /\ FLe(xmax_, xmin_))

\* the tables that init() builds when no node of the last row gets its
\* analytic values, so that every accumulator is the sum of the quadratures
\* of the segments from Y = 0 on
LocalNumericallyIntegrated == CtorLocal(input.pv, input.df, input.gridh, 0, 2..npointsY)

\* C20 as stated: in the last row of the tables, at every node in Y where the
\* hypergeometric function returned a non-finite number, the stored values are
\* those of the accumulators integrated segment by segment from Y = 0 up to
\* that node, the warning is logged for the node, and the model is constructed.
C20_AsStated ==
    (obj.local /\ input.hyperBad # {} /\ call.op = "none") =>
        /\ obj.err = "ok"
        /\ \A j \in input.hyperBad :
              /\ <<Len(obj.intJ1.x), j, "Can't compute asymptotic value">> \in obj.warned
              /\ obj.intJ1.z[Len(obj.intJ1.x)][j]
                    = LocalNumericallyIntegrated.intJ1.z[Len(obj.intJ1.x)][j]
              /\ obj.intJ3.z[Len(obj.intJ3.x)][j]
                    = LocalNumericallyIntegrated.intJ3.z[Len(obj.intJ3.x)][j]

\* ------------------------------------------------------------------------
\* Properties of the loop over the segments in Y
\* ------------------------------------------------------------------------

\* the integral of the integrand of power P over the first segment in Y of
\* the row at logh0, with the cubic change of variable
FirstSegmentScaled(P, logh0, logHcurr) ==
    integrateGL(LAMBDA s : FMul(DFIntegrand(input.df, input.pv, logh0, P,
                                            ScalingCubX(logh0, logHcurr, s)),
                                ScalingCubDxDs(logh0, logHcurr, s)),
                0, SCALE, GLORDER)

\* the integral over a later segment, with the plain rule
LaterSegmentPlain(P, logh0, logHprev, logHcurr) ==
    integrateGL(LAMBDA x : DFIntegrand(input.df, input.pv, logh0, P, x),
                logHprev, logHcurr, GLORDER)

\* the accumulator of power P of the row i of the stored tables after the
\* segments 2..j were met in increasing order, k being the next one
RECURSIVE SegmentsInOrder(_, _, _, _, _)
SegmentsInOrder(P, i, j, k, acc) ==
    IF k > j \/ acc = NAN THEN acc
    ELSE SegmentsInOrder(P, i, j, k + 1,
            IF k = 2
            THEN FirstSegmentScaled(P, obj.intJ1.x[i], FAdd(obj.intJ1.x[i], obj.intJ1.y[2]))
            ELSE FAdd(acc, LaterSegmentPlain(P, obj.intJ1.x[i],
                                             FAdd(obj.intJ1.x[i], obj.intJ1.y[k - 1]),
                                             FAdd(obj.intJ1.x[i], obj.intJ1.y[k]))))

\* the node (i, j) of the tables from the three accumulators
CellOfAccumulators(i, j, J0acc, J1acc, J3acc) ==
    LocalCellRatios([gridLogH |-> obj.intJ1.x], i,
                    [acc |-> <<J0acc, J1acc, J3acc>>, asymptotic |-> FALSE],
                    FSqrt(PVdeltaE(input.pv, FAdd(obj.intJ1.x[i], obj.intJ1.y[j]),
                                   obj.intJ1.x[i])))

CellInOrder(i, j) ==
    CellOfAccumulators(i, j, SegmentsInOrder(0, i, j, 2, 0),
                       SegmentsInOrder(1, i, j, 2, 0), SegmentsInOrder(3, i, j, 2, 0))

SegmentFByOrder(i, order) ==
    LET gridLogH == CtorGridLogH(input.gridh)
        dlogh    == FSub(gridLogH[i], gridLogH[i - 1])
    IN  FSum(Vec([k \in 1..order |->
                    SegmentAt(input.pv, input.df,
                              FExp(FAdd(gridLogH[i - 1], FMul(dlogh, GLPOINTS(order)[k]))),
                              FMul(GLWEIGHTS(order)[k], dlogh)).F]), order)

\* the length in log h of the segment that ends at the node i
SegmentLength(i) ==
    FSub(CtorGridLogH(input.gridh)[i], CtorGridLogH(input.gridh)[i - 1])

C23_AsStated ==
    (/\ call.op = "computeProjectedDensity"
     /\ \A i \in 1..Len(call.arg[1]) : FGt(CpdDeltar(call.arg[1], i), 0))
        => /\ call.raised = "none"
           /\ \A j \in 1..Len(call.arg[1]) : gridProjDensity[j] # NAN

\* C24 as stated: when every segment of gridPhi has deltaPhi > 0, so that the
\* accumulation loop of every segment is reached, a call of computeDensity
\* never fails its assertion dif >= 0.
C24_AsStated ==
    (/\ call.op = "computeDensity"
     /\ \A i \in 1..Len(call.arg[1]) : FGt(CdDeltaPhi(call.arg[1], i), 0))
        => call.raised = "none"

\* ------------------------------------------------------------------------
\* Properties of the checks of init()
\* ------------------------------------------------------------------------

\* init() rejected the DF for its outer slope: the base object had been
\* constructed through its last step
InitRejectedOuterSlope == obj.err = "DivergentMass" /\ obj.step = 7

\* init() dropped trailing nodes of the grid
InitTrimmed ==
    Len(LocalTrim(input.df, CtorGridLogH(input.gridh))) < Len(input.gridh)

StoredSegment(i) == Segment(input.pv, input.df, CtorGridLogH(input.gridh), i)

\* the analytic integrals beyond the last node, from the stored fields
TailF ==
    FDiv(FMul(FNeg(obj.gridF[obj.npoints]), obj.outerE),
         FAdd(SCALE, FDiv(obj.outerFslope, obj.outerEslope)))

TailFG ==
    FNeg(FDiv(FMul(obj.gridF[obj.npoints], obj.gridH[obj.npoints]),
              FAdd(SCALE, obj.outerFslope)))

\* the analytic integral of f g dE below the first node
InnerFG == FDiv(FMul(obj.gridF[1], obj.gridH[1]), FAdd(SCALE, obj.innerFslope))

\* C26: in a model constructed on an ascending grid from a DF that is >= 0,
\* Fint does not increase with the node index and ends at the analytic tail,
\* which is >= 0; FGint, FHint and FEint do not decrease with the node index;
\* FGint starts at the analytic integral below h_min, grows by the integral
\* over the segment from node to node, and holds the analytic tail beyond
\* h_max at the last node only.
C26_TablesMonotonic ==
    (obj.err = "ok" /\ call.op = "none") =>
        /\ \A i \in 2..obj.npoints :
              /\ FGe(obj.gridFint[i - 1], obj.gridFint[i])
              /\ FLe(obj.gridFGint[i - 1], obj.gridFGint[i])
              /\ FLe(obj.gridFHint[i - 1], obj.gridFHint[i])
              /\ FLe(obj.gridFEint[i - 1], obj.gridFEint[i])
              /\ obj.gridFint[i - 1] = FAdd(StoredSegment(i).F, obj.gridFint[i])
              /\ obj.gridFGint[i]
                    = FAdd(FAdd(StoredSegment(i).FG, obj.gridFGint[i - 1]),
                           IF i = obj.npoints THEN TailFG ELSE 0)
        /\ obj.gridFint[obj.npoints] = TailF
        /\ FGe(TailF, 0)
        /\ FGe(TailFG, 0)
        /\ obj.gridFGint[1] = FAdd(InnerFG, IF obj.npoints = 1 THEN TailFG ELSE 0)

\* C26, its case: a model on three nodes whose tables change from each node
\* to the next, and whose tail beyond h_max is not zero
C26_ThreeNodes ==
    /\ obj.err = "ok" /\ call.op = "none"
    /\ obj.npoints = 3
    /\ TailF > 0 /\ TailFG > 0
    /\ \A i \in 2..3 :
          /\ FGt(obj.gridFint[i - 1], obj.gridFint[i])
          /\ FLt(obj.gridFGint[i - 1], obj.gridFGint[i])
          /\ FLt(obj.gridFHint[i - 1], obj.gridFHint[i])
          /\ FLt(obj.gridFEint[i - 1], obj.gridFEint[i])

\* ------------------------------------------------------------------------
\* Properties of the sampled speed
\* ------------------------------------------------------------------------

\* C27 as stated: for every Phi < 0 and every value drawn, sampleVelocity
\* returns a finite speed that is not negative and not above the escape speed
\* sqrt(-2 Phi).
C27_AsStated ==
    (call.op = "sampleVelocity" /\ FLt(call.arg[1], 0)) =>
        /\ call.raised = "none"
        /\ isFinite(call.result[1])
        /\ FGe(call.result[1], 0)
        /\ FLe(call.result[1], FSqrt(FMul(2 * SCALE, FNeg(call.arg[1]))))

\* ------------------------------------------------------------------------
\* Properties of the indices used by the constructor
\* ------------------------------------------------------------------------

\* C28 as stated: for every grid of at least one node the constructor reads
\* and writes its per-node arrays at the indices 0..npoints-1 only.
C28_AsStated == (input.gridh # <<>>) => ~obj.oob

=============================================================================
